---- MODULE Spec2Model ----
(***************************************************************************)
(* Verification model of pg_idx_advisor (src/src/idx_adviser.c).           *)
(*                                                                         *)
(* Two layers are modelled:                                                *)
(*   - the candidate algebra (compare_candidates, merge_candidates,        *)
(*     build_composite_candidates, expand_inherited_candidates and the     *)
(*     expression scanner index_candidates_walker / scan_query), as        *)
(*     operators computed the way the C code computes them;                *)
(*   - one advisory pass (planner_callback / ExplainOneQuery_callback ->   *)
(*     index_adviser -> store_idx_advice) as a state machine whose program *)
(*     counter follows the statements of index_adviser, with PostgreSQL's  *)
(*     elog(ERROR) modelled as a jump to the innermost PG_CATCH.           *)
(*                                                                         *)
(* Lists are sequences, NIL is the empty sequence.  List cells are         *)
(* 1-based indexes; index Len+1 plays the role of the NULL cell.           *)
(***************************************************************************)
EXTENDS Integers, Sequences, FiniteSets, TLC

VARIABLES
    pc,                       \* position inside the callback / index_adviser
    caller,                   \* "planner" | "explain" | "none": the hook that is running
    query,                    \* the query copy handed to index_adviser
    bootstrap,                \* IsBootstrapProcessingMode() for this invocation
    SuppressRecursion,        \* static int8 recursion guard
    get_relation_info_hook,   \* TRUE when set to get_relation_info_callback
    index_candidates,         \* global list of index candidates
    table_clauses,            \* global list of RelClause
    candidates,               \* index_adviser's local candidate list
    saveCandidates,           \* index_adviser's local flag
    new_plan,                 \* index_adviser's local / returned plan
    actual_plan,              \* the plan of the standard planner made by the callback
    subxactOpen,              \* the pass's internal sub-transaction is open
    subxactLeaked,            \* sub-transactions of earlier passes that were never rolled back
    virtualIndexes,           \* the relations of the catalog entries made by create_virtual_indexes and not rolled back; entry k has Oid k
    emitIdx,                  \* store_idx_advice: index of the candidate being stored
    errorRaised,              \* an ERROR is propagating ("none" or the stage that raised it)
    passError,                \* stage of the first ERROR raised in the current pass
    emissionEntered,          \* store_idx_advice was entered in the current pass
    hostPlan,                 \* what planner_callback last returned to the host
    hostError,                \* the last statement failed with an ERROR seen by the user
    warnings,                 \* number of WARNINGs logged by the last statement
    inserts,                  \* INSERTs into the advisory table executed by the last statement
    printed,                  \* advice lines appended to the EXPLAIN output by the last statement
    nested,                   \* record of the last nested (own-DML) invocation
    idxadv_read_only,         \* index_adviser.read_only
    idxadv_composit_max_cols, \* index_adviser.composit_max_cols
    advTable,                 \* what store_idx_advice found under the name "index_advisory"
    uninit                    \* value read from palloc'ed, never written memory

vars == << pc, caller, query, bootstrap, SuppressRecursion, get_relation_info_hook,
           index_candidates, table_clauses, candidates, saveCandidates, new_plan,
           actual_plan, subxactOpen, subxactLeaked, virtualIndexes, emitIdx, errorRaised,
           passError, emissionEntered, hostPlan, hostError, warnings, inserts,
           printed, nested, idxadv_read_only, idxadv_composit_max_cols, advTable,
           uninit >>

(***************************************************************************)
(* Bounds of the model.                                                    *)
(***************************************************************************)
MaxLeaked == 1
MaxCost == 2
MaxCompositCols == 3
MaxBootstrap == 1

(***************************************************************************)
(* Program constants.                                                      *)
(***************************************************************************)
INDEX_MAX_KEYS == 32
DefaultCompositMaxCols == 3
Int8Min == -128
Int8Max == 127

NIL == << >>

(* the operators of SupportedOps[] in index_adviser *)
SupportedOps == { "=", "<", ">", "<=", ">=", "~~" }

(* default of index_adviser.cols *)
idxadv_columns == << "entity_type_id", "is_deleted" >>

(* int8 arithmetic of SuppressRecursion: wraps to 8 bits *)
WrapInt8(n) == ((n - Int8Min) % 256) + Int8Min

(***************************************************************************)
(* The catalog the code reads through heap_open, get_attname,              *)
(* find_inheritance_children and RelationGetIndexList.  Relations 1 and 2  *)
(* are t and t1 of test/sql/base.sql, 3..5 the measurement hierarchy of    *)
(* test/sql/measurement.sql; 6 is a table with an index on its first       *)
(* column, 7 a temporary table and 8 a catalog table.  reltuples counts    *)
(* the heap tuples in units of one index page per key column.              *)
(***************************************************************************)
RelIds == 1..8

Catalog(relid) ==
    CASE relid = 1 -> [ needsWAL |-> TRUE, isSystem |-> FALSE, reltuples |-> 1,
                        attname |-> << "a", "b", "is_deleted" >>,
                        children |-> << >>, indexes |-> << >> ]
      [] relid = 2 -> [ needsWAL |-> TRUE, isSystem |-> FALSE, reltuples |-> 1,
                        attname |-> << "a", "b" >>,
                        children |-> << >>, indexes |-> << >> ]
      [] relid = 3 -> [ needsWAL |-> TRUE, isSystem |-> FALSE, reltuples |-> 0,
                        attname |-> << "city_id", "logdate", "peaktemp", "unitsales" >>,
                        children |-> << 4, 5 >>, indexes |-> << >> ]
      [] relid = 4 -> [ needsWAL |-> TRUE, isSystem |-> FALSE, reltuples |-> 2,
                        attname |-> << "city_id", "logdate", "peaktemp", "unitsales" >>,
                        children |-> << >>,
                        indexes |-> << [ valid |-> TRUE, exprs |-> FALSE, pred |-> FALSE,
                                         keys |-> << 4 >>, indexoid |-> 401 ] >> ]
      [] relid = 5 -> [ needsWAL |-> TRUE, isSystem |-> FALSE, reltuples |-> 2,
                        attname |-> << "city_id", "logdate", "peaktemp", "unitsales" >>,
                        children |-> << >>, indexes |-> << >> ]
      [] relid = 6 -> [ needsWAL |-> TRUE, isSystem |-> FALSE, reltuples |-> 128,
                        attname |-> << "a", "b" >>,
                        children |-> << >>,
                        indexes |-> << [ valid |-> TRUE, exprs |-> FALSE, pred |-> FALSE,
                                         keys |-> << 1 >>, indexoid |-> 601 ] >> ]
      [] relid = 7 -> [ needsWAL |-> FALSE, isSystem |-> FALSE, reltuples |-> 0,
                        attname |-> << "a", "b" >>,
                        children |-> << >>, indexes |-> << >> ]
      [] OTHER     -> [ needsWAL |-> TRUE, isSystem |-> TRUE, reltuples |-> 0,
                        attname |-> << "a", "b" >>,
                        children |-> << >>, indexes |-> << >> ]

RelationNeedsWAL(relid) == Catalog(relid).needsWAL
IsSystemRelation(relid) == Catalog(relid).isSystem
find_inheritance_children(relid) == Catalog(relid).children

(* get_attname: the attribute name, or the empty string for NULL *)
get_attname(relid, attno) ==
    IF relid \in RelIds /\ attno \in 1..Len(Catalog(relid).attname)
    THEN Catalog(relid).attname[attno]
    ELSE ""

(***************************************************************************)
(* C strings whose order matters (relation aliases) are sequences of byte  *)
(* values; strcmp returns the difference of the first pair of bytes that   *)
(* differ, the terminating NUL being byte 0.                               *)
(***************************************************************************)
RECURSIVE strcmpFrom(_, _, _)
strcmpFrom(s1, s2, i) ==
    LET c1 == IF i <= Len(s1) THEN s1[i] ELSE 0
        c2 == IF i <= Len(s2) THEN s2[i] ELSE 0
    IN  IF c1 # c2 THEN c1 - c2
        ELSE IF c1 = 0 THEN 0
        ELSE strcmpFrom(s1, s2, i + 1)

strcmp(s1, s2) == strcmpFrom(s1, s2, 1)

(* the float4 benefit saved * (pages / totalSize), kept as the exact       *)
(* fraction num / den; den = 0 is the division by zero                     *)
NoBenefit == [ num |-> 0, den |-> 1 ]

(***************************************************************************)
(* IndexCandidate.  varattno holds the first ncols entries of the C array; *)
(* every writer zeroes the remaining entries, which Attno reproduces.      *)
(***************************************************************************)
IndexCandidate(varno, reloid, erefAlias, varattno, attList, inh, parentOid) ==
    [ varno |-> varno, reloid |-> reloid, erefAlias |-> erefAlias,
      ncols |-> Len(varattno), varattno |-> varattno, attList |-> attList,
      inh |-> inh, parentOid |-> parentOid,
      idxoid |-> 0, idxused |-> FALSE, pages |-> 0, benefit |-> NoBenefit ]

(* cand->varattno[i], i counted from 0 as in the C code *)
Attno(cand, i) == IF i < Len(cand.varattno) THEN cand.varattno[i + 1] ELSE 0

(* the do { } while loop of compare_candidates, entered with i *)
RECURSIVE compare_attnos(_, _, _)
compare_attnos(ic1, ic2, i) ==
    LET result == Attno(ic1, i) - Attno(ic2, i)
    IN  IF result = 0 /\ (i + 1) < ic1.ncols
        THEN compare_attnos(ic1, ic2, i + 1)
        ELSE result

compare_candidates(ic1, ic2) ==
    LET byRel == ic1.reloid - ic2.reloid
        byAlias == strcmp(ic1.erefAlias, ic2.erefAlias)
        byCols == ic1.ncols - ic2.ncols
    IN  IF byRel # 0 THEN byRel
        ELSE IF byAlias # 0 THEN byAlias
        ELSE IF byCols # 0 THEN byCols
        ELSE compare_attnos(ic1, ic2, 0)

RECURSIVE merge_loop(_, _, _, _, _)
(* a merge that keeps the cell of list2 that equals the cell of list1 *)
merge_step_keeping_equal(list1, list2, cell1, cell2, ret, cmp) ==
    IF cmp <= 0
    THEN merge_loop(list1, list2, cell1 + 1, cell2, Append(ret, list1[cell1]))
    ELSE merge_loop(list1, list2, cell1, cell2 + 1, Append(ret, list2[cell2]))

(* a merge that takes the greater cell first *)
merge_step_greater_first(list1, list2, cell1, cell2, ret, cmp) ==
    IF cmp >= 0
    THEN merge_loop(list1, list2, cell1 + 1,
                    IF cmp = 0 THEN cell2 + 1 ELSE cell2,
                    Append(ret, list1[cell1]))
    ELSE merge_loop(list1, list2, cell1, cell2 + 1,
                    Append(ret, list2[cell2]))

(* one iteration of the merge loop, cmp being compare_candidates of the two cells *)
merge_step(list1, list2, cell1, cell2, ret, cmp) ==
    IF cmp <= 0
    THEN merge_loop(list1, list2, cell1 + 1,
                    IF cmp = 0 THEN cell2 + 1 ELSE cell2,
                    Append(ret, list1[cell1]))
    ELSE merge_loop(list1, list2, cell1, cell2 + 1,
                    Append(ret, list2[cell2]))

(* the merge loop of merge_candidates followed by the two leftover loops *)
merge_loop(list1, list2, cell1, cell2, ret) ==
    IF cell1 > Len(list1) \/ cell2 > Len(list2)
    THEN ret \o SubSeq(list1, cell1, Len(list1)) \o SubSeq(list2, cell2, Len(list2))
    ELSE merge_step(list1, list2, cell1, cell2, ret,
                    compare_candidates(list1[cell1], list2[cell2]))

(* The pointer test list1 == list2 returns list1; the loop gives the same  *)
(* list for two lists with the same cells, so it needs no case of its own. *)
merge_candidates(list1, list2) ==
    IF Len(list1) = 0 /\ Len(list2) = 0 THEN NIL
    ELSE IF Len(list1) = 0 THEN list2
    ELSE IF Len(list2) = 0 THEN list1
    ELSE merge_loop(list1, list2, 1, 1, NIL)

(***************************************************************************)
(* build_composite_candidates                                              *)
(***************************************************************************)
(* list_concat_unique(l1, l2): l1 followed by the members of l2 not yet in it *)
RECURSIVE list_concat_unique(_, _)
list_concat_unique(l1, l2) ==
    IF l2 = << >> THEN l1
    ELSE list_concat_unique(
            IF \E k \in 1..Len(l1) : l1[k] = Head(l2) THEN l1 ELSE Append(l1, Head(l2)),
            Tail(l2))

(* the foundCommon double loop *)
foundCommon(cand1, cand2) ==
    \E i1 \in 0..(cand1.ncols - 1), i2 \in 0..(cand2.ncols - 1) :
        Attno(cand1, i1) = Attno(cand2, i2)

(* cic1 / cic2: palloc'ed, so inh and parentOid keep whatever the memory held *)
composite_of(first, second, relationOid, alias) ==
    [ varno |-> -1, reloid |-> relationOid, erefAlias |-> alias,
      ncols |-> first.ncols + second.ncols,
      varattno |-> first.varattno \o second.varattno,
      attList |-> list_concat_unique(first.attList, second.attList),
      inh |-> uninit, parentOid |-> 0,
      idxoid |-> 0, idxused |-> FALSE, pages |-> 0, benefit |-> NoBenefit ]

(* body of the innermost do-loop: the pair (cand1, cand2) *)
(* "merge into compositeCandidates": cmp is compare_candidates(cic1, cic2) *)
composite_merge(cic1, cic2, cmp, compositeCandidates) ==
    IF cmp = 0
    THEN merge_candidates(<< cic1 >>, compositeCandidates)
    ELSE IF cmp < 0
    THEN merge_candidates(<< cic1, cic2 >>, compositeCandidates)
    ELSE merge_candidates(<< cic2, cic1 >>, compositeCandidates)

composite_compare(cic1, cic2, compositeCandidates) ==
    composite_merge(cic1, cic2, compare_candidates(cic1, cic2), compositeCandidates)

(* cic2, built after cic1: cand1->attList was extended in place by the     *)
(* first list_concat_unique                                                *)
composite_second(cand1, cand2, relationOid, alias, cic1, compositeCandidates) ==
    composite_compare(cic1,
        [ composite_of(cand2, cand1, relationOid, alias) EXCEPT
            !.attList = list_concat_unique(cand2.attList, cic1.attList) ],
        compositeCandidates)

(* a pairing that does not look for a common column *)
composite_pair_with_common(cand1, cand2, relationOid, alias, compositeCandidates) ==
    IF /\ (cand1.ncols + cand2.ncols) < INDEX_MAX_KEYS
       /\ (cand1.ncols + cand2.ncols) <= idxadv_composit_max_cols
    THEN composite_second(cand1, cand2, relationOid, alias,
                          composite_of(cand1, cand2, relationOid, alias),
                          compositeCandidates)
    ELSE compositeCandidates

composite_pair(cand1, cand2, relationOid, alias, compositeCandidates) ==
    IF /\ (cand1.ncols + cand2.ncols) < INDEX_MAX_KEYS
       /\ (cand1.ncols + cand2.ncols) <= idxadv_composit_max_cols
       /\ ~foundCommon(cand1, cand2)
    THEN composite_second(cand1, cand2, relationOid, alias,
                          composite_of(cand1, cand2, relationOid, alias),
                          compositeCandidates)
    ELSE compositeCandidates

(* end of the run of cells of list that starts at cell and stays on relationOid; *)
(* the do-while always takes the first cell                                      *)
RECURSIVE run_end(_, _, _)
run_end(list, cell, relationOid) ==
    IF cell + 1 <= Len(list) /\ list[cell + 1].reloid = relationOid
    THEN run_end(list, cell + 1, relationOid)
    ELSE cell + 1

(* inner do-loop over l1b for one cell2 *)
RECURSIVE composite_inner(_, _, _, _, _, _, _)
composite_inner(list1, l1b, end1, cand2, relationOid, alias, compositeCandidates) ==
    IF l1b >= end1 THEN compositeCandidates
    ELSE composite_inner(list1, l1b + 1, end1, cand2, relationOid, alias,
            composite_pair(list1[l1b], cand2, relationOid, alias, compositeCandidates))

(* outer do-loop over cell2 *)
RECURSIVE composite_outer(_, _, _, _, _, _, _, _)
composite_outer(list1, list2, cell1, end1, cell2, end2, alias, compositeCandidates) ==
    IF cell2 >= end2 THEN compositeCandidates
    ELSE composite_outer(list1, list2, cell1, end1, cell2 + 1, end2, alias,
            composite_inner(list1, cell1, end1, list2[cell2],
                            list1[cell1].reloid, alias, compositeCandidates))

(* the while loop of build_composite_candidates *)
RECURSIVE composite_loop(_, _, _, _, _)
composite_loop(list1, list2, cell1, cell2, compositeCandidates) ==
    IF cell1 > Len(list1) \/ cell2 > Len(list2) THEN compositeCandidates
    ELSE
    LET cand1 == list1[cell1]
        cand2 == list2[cell2]
        cmp == (cand1.reloid - cand2.reloid) + strcmp(cand1.erefAlias, cand2.erefAlias)
    IN  IF cmp < 0
        THEN \* advance in list 1; the loop condition keeps reading the first cand1
             composite_loop(list1, list2,
                            IF cand2.reloid > cand1.reloid THEN Len(list1) + 1 ELSE cell1 + 1,
                            cell2, compositeCandidates)
        ELSE IF cmp > 0
        THEN \* advance in list 2; the loop condition keeps reading the first cand2
             composite_loop(list1, list2, cell1,
                            IF cand1.reloid > cand2.reloid THEN Len(list2) + 1 ELSE cell2 + 1,
                            compositeCandidates)
        ELSE LET end1 == run_end(list1, cell1, cand1.reloid)
                 end2 == run_end(list2, cell2, cand1.reloid)
             IN  composite_loop(list1, list2, end1, end2,
                    composite_outer(list1, list2, cell1, end1, cell2, end2,
                                    cand1.erefAlias, compositeCandidates))

build_composite_candidates(list1, list2) ==
    IF Len(list1) = 0 \/ Len(list2) = 0 THEN NIL
    ELSE composite_loop(list1, list2, 1, 1, NIL)

(***************************************************************************)
(* expand_inherited_candidates                                             *)
(***************************************************************************)
(* a clone that does not record the relation it was made from *)
inherited_clone_no_parent(cand, childOID) ==
    [ varno |-> -1, reloid |-> childOID, erefAlias |-> cand.erefAlias,
      ncols |-> cand.ncols, varattno |-> cand.varattno, attList |-> cand.attList,
      inh |-> uninit, parentOid |-> 0,
      idxoid |-> 0, idxused |-> FALSE, pages |-> 0, benefit |-> NoBenefit ]

(* the clone made for one child: palloc'ed, inh is never written *)
inherited_clone(cand, childOID) ==
    [ varno |-> -1, reloid |-> childOID, erefAlias |-> cand.erefAlias,
      ncols |-> cand.ncols, varattno |-> cand.varattno, attList |-> cand.attList,
      inh |-> uninit, parentOid |-> cand.reloid,
      idxoid |-> 0, idxused |-> FALSE, pages |-> 0, benefit |-> NoBenefit ]

RECURSIVE inherited_clones(_, _, _)
inherited_clones(cand, inhOIDs, l) ==
    IF l > Len(inhOIDs) THEN << >>
    ELSE << inherited_clone(cand, inhOIDs[l]) >> \o inherited_clones(cand, inhOIDs, l + 1)

RECURSIVE expand_loop(_, _, _)
expand_loop(list, cell, newCandidates) ==
    IF cell > Len(list) THEN newCandidates
    ELSE
    LET cand == list[cell]
        inhOIDs == find_inheritance_children(cand.reloid)
    IN  IF ~cand.inh
        THEN expand_loop(list, cell + 1, Append(newCandidates, cand))
        ELSE IF Len(inhOIDs) < 1
        THEN expand_loop(list, cell + 1, Append(newCandidates, [ cand EXCEPT !.inh = FALSE ]))
        ELSE expand_loop(list, cell + 1,
                Append(newCandidates, cand) \o inherited_clones(cand, inhOIDs, 1))

expand_inherited_candidates(list) == expand_loop(list, 1, NIL)

(***************************************************************************)
(* Query trees.  Every node is a record with a tag; Null stands for a NULL *)
(* pointer.  A Var names its range-table entry by (varlevelsup, varno).    *)
(***************************************************************************)
Null == [ tag |-> "NULL" ]
Const == [ tag |-> "Const" ]
Var(varno, varattno, varlevelsup) ==
    [ tag |-> "Var", varno |-> varno, varattno |-> varattno, varlevelsup |-> varlevelsup ]
OpExpr(opno, left, right) == [ tag |-> "OpExpr", opno |-> opno, args |-> << left, right >> ]
BoolExpr(boolop, args) == [ tag |-> "BoolExpr", boolop |-> boolop, args |-> args ]
FuncExpr(funcid, args) == [ tag |-> "FuncExpr", funcid |-> funcid, args |-> args ]
RelabelType(arg) == [ tag |-> "RelabelType", arg |-> arg ]
SubLink(subselect) == [ tag |-> "SubLink", subselect |-> subselect ]
NodeList(args) == [ tag |-> "List", args |-> args ]

RangeTblEntry(rtekind, relid, aliasname, inh, subquery) ==
    [ rtekind |-> rtekind, relid |-> relid, aliasname |-> aliasname, inh |-> inh,
      subquery |-> subquery, joinaliasvars |-> << >> ]

Query(rtable, cteList, quals, groupClause, sortClause, targetList) ==
    [ tag |-> "Query", rtable |-> rtable, cteList |-> cteList, quals |-> quals,
      groupClause |-> groupClause, sortClause |-> sortClause, targetList |-> targetList ]

(***************************************************************************)
(* The scanner.  A ScanContext carries, besides candidates and the         *)
(* range-table stack, the global table_clauses (the walker appends to it)  *)
(* and err, which is TRUE once an elog(ERROR) has left the scan.           *)
(***************************************************************************)
ScanContext(cands, rangeTableStack, clauses, err) ==
    [ candidates |-> cands, rangeTableStack |-> rangeTableStack,
      table_clauses |-> clauses, err |-> err ]

(* get_rel_clausesCell: the index of the first RelClause of (reloid, alias), 0 for NULL *)
get_rel_clausesCell(clauses, reloid, erefAlias) ==
    LET hits == { k \in 1..Len(clauses) :
                    /\ clauses[k].reloid = reloid
                    /\ strcmp(clauses[k].erefAlias, erefAlias) = 0 }
    IN  IF hits = {} THEN 0 ELSE CHOOSE k \in hits : \A j \in hits : k <= j

(* get_rel_clauses: the predicate list of the first RelClause of (reloid, alias) *)
get_rel_clauses(clauses, reloid, erefAlias) ==
    LET cell == get_rel_clausesCell(clauses, reloid, erefAlias)
    IN  IF cell = 0 THEN NIL ELSE clauses[cell].predicate

(* makePredicateClause: sets VarArg->varno to 1 and builds  VarArg op constArg *)
makePredicateClause(root, constArg, VarArg) ==
    [ tag |-> "OpExpr", opno |-> root.opno,
      args |-> << [ VarArg EXCEPT !.varno = 1 ], constArg >> ]

(* the strtok loop over idxadv_columns *)
foundTokenFor(varname) == \E k \in 1..Len(idxadv_columns) : idxadv_columns[k] = varname

(* list_nth( list_nth( rangeTableStack, varlevelsup ), varno - 1 ) *)
rte_of(rangeTableStack, var) == rangeTableStack[var.varlevelsup + 1][var.varno]

RECURSIVE index_candidates_walker(_, _)
RECURSIVE scan_generic_node(_, _, _, _)
RECURSIVE scan_query(_, _, _, _)
RECURSIVE expression_tree_walker(_, _)
RECURSIVE walk_list(_, _, _)
RECURSIVE walker_or_args(_, _, _)
RECURSIVE walker_and_args(_, _, _, _)
RECURSIVE walker_op_args(_, _, _)
RECURSIVE scan_cteList(_, _, _, _)
RECURSIVE scan_rtable(_, _, _, _)
RECURSIVE scan_group_loop(_, _, _, _, _)
RECURSIVE scan_target_loop(_, _, _, _)

(* children visited by expression_tree_walker for the node kinds without a case *)
children_of(root) ==
    CASE root.tag \in { "FuncExpr", "List", "OpExpr", "BoolExpr" } -> root.args
      [] root.tag = "RelabelType" -> << root.arg >>
      [] root.tag = "SubLink" -> << root.subselect >>
      [] OTHER -> << >>

walk_list(args, cell, context) ==
    IF cell > Len(args) \/ context.err THEN context
    ELSE walk_list(args, cell + 1, index_candidates_walker(args[cell], context))

expression_tree_walker(root, context) == walk_list(children_of(root), 1, context)

(* context->candidates = merge_candidates( context->candidates, <scan> ):  *)
(* r is what the scan returned, with the table_clauses and the error state *)
(* it left behind                                                          *)
merge_into_context(context, r) ==
    [ context EXCEPT !.candidates = merge_candidates(context.candidates, r.candidates),
                     !.table_clauses = r.table_clauses,
                     !.err = r.err ]

(* context->candidates = <scan> *)
assign_to_context(context, r) ==
    [ context EXCEPT !.candidates = r.candidates,
                     !.table_clauses = r.table_clauses,
                     !.err = r.err ]

(* T_BoolExpr, boolop != AND_EXPR: the foreach over expr->args *)
walker_or_args(args, cell, context) ==
    IF cell > Len(args) \/ context.err THEN context
    ELSE walker_or_args(args, cell + 1,
            merge_into_context(context,
                scan_generic_node(args[cell], context.rangeTableStack,
                                  context.table_clauses, context.err)))

(* a non-AND branch that composes what its arguments gave *)
walker_BoolExpr_or_composing(expr, context) ==
    LET r == walker_or_args(expr.args, 1, context)
    IN  [ r EXCEPT !.candidates =
            merge_candidates(r.candidates,
                             build_composite_candidates(r.candidates, r.candidates)) ]

walker_BoolExpr_or(expr, context) == walker_or_args(expr.args, 1, context)

(* T_BoolExpr, AND_EXPR: the body of the foreach for one argument, r being *)
(* the result of scanning it.  The list handed to                          *)
(* build_composite_candidates is the walker's local variable candidates,   *)
(* which is initialised to NIL and assigned nowhere in the function.       *)
walker_and_arg(localCandidates, compositeCandidates, r) ==
    merge_candidates(compositeCandidates,
                     build_composite_candidates(localCandidates, r.candidates))

walker_and_next(args, cell, context, compositeCandidates, r) ==
    walker_and_args(args, cell + 1, merge_into_context(context, r),
                    walker_and_arg(NIL, compositeCandidates, r))

(* T_BoolExpr, AND_EXPR: the foreach over expr->args and the final merge *)
walker_and_args(args, cell, context, compositeCandidates) ==
    IF context.err THEN context
    ELSE IF cell > Len(args)
    THEN [ context EXCEPT !.candidates = merge_candidates(context.candidates, compositeCandidates) ]
    ELSE walker_and_next(args, cell, context, compositeCandidates,
            scan_generic_node(args[cell], context.rangeTableStack,
                              context.table_clauses, context.err))

walker_BoolExpr_and(expr, context) == walker_and_args(expr.args, 1, context, NIL)

(* the test made on one Var argument of a supported operator: the entry of *)
(* the range table, the attribute name, the token search                   *)
op_partial_var(cell, rte, varname) ==
    IF rte.rtekind = "CTE" THEN [ found |-> FALSE, err |-> FALSE, cell |-> 0, more |-> FALSE ]
    \* get_relid_attribute_name raises ERROR when the attribute is not there
    ELSE IF varname = "" THEN [ found |-> FALSE, err |-> TRUE, cell |-> cell, more |-> FALSE ]
    ELSE IF foundTokenFor(varname)
    THEN [ found |-> TRUE, err |-> FALSE, cell |-> cell, more |-> FALSE ]
    ELSE [ found |-> FALSE, err |-> FALSE, cell |-> 0, more |-> TRUE ]

(* T_OpExpr, first foreach: the argument that decides the partial-clause   *)
(* test.  Result: [found, err, cell] for the Var that ends the loop.       *)
RECURSIVE op_partial_scan(_, _, _)
RECURSIVE op_partial_next(_, _, _, _)
op_partial_next(args, cell, rangeTableStack, p) ==
    IF p.more THEN op_partial_scan(args, cell + 1, rangeTableStack) ELSE p

op_partial_scan(args, cell, rangeTableStack) ==
    IF cell > Len(args) THEN [ found |-> FALSE, err |-> FALSE, cell |-> 0, more |-> FALSE ]
    ELSE IF args[cell].tag # "Var" THEN op_partial_scan(args, cell + 1, rangeTableStack)
    ELSE op_partial_next(args, cell, rangeTableStack,
            op_partial_var(cell, rte_of(rangeTableStack, args[cell]),
                           get_attname(rte_of(rangeTableStack, args[cell]).relid,
                                       args[cell].varattno)))

(* the RelClause bookkeeping done when foundToken is set: fragment is the  *)
(* clause made by makePredicateClause, relPredicates the cell found by     *)
(* get_rel_clausesCell                                                     *)
store_rel_clause(clauses, rte, fragment, relPredicates) ==
    IF relPredicates = 0
    THEN Append(clauses, [ reloid |-> rte.relid, erefAlias |-> rte.aliasname,
                           predicate |-> << fragment >> ])
    ELSE [ clauses EXCEPT ![relPredicates].predicate = Append(@, fragment) ]

add_rel_clause(clauses, rte, root) ==
    store_rel_clause(clauses, rte,
        IF root.args[1].tag = "Var"
        THEN makePredicateClause(root, root.args[2], root.args[1])
        ELSE makePredicateClause(root, root.args[1], root.args[2]),
        get_rel_clausesCell(clauses, rte.relid, rte.aliasname))

(* T_OpExpr, second foreach *)
walker_op_args(args, cell, context) ==
    IF cell > Len(args) \/ context.err THEN context
    ELSE walker_op_args(args, cell + 1,
            merge_into_context(context,
                scan_generic_node(args[cell], context.rangeTableStack,
                                  context.table_clauses, context.err)))

(* a supported operator whose arguments are scanned although the token was found *)
walker_OpExpr_supported_descending(expr, context, p) ==
    IF p.err THEN [ context EXCEPT !.err = TRUE ]
    ELSE walker_op_args(expr.args, 1,
            IF p.found
            THEN [ context EXCEPT !.table_clauses =
                     add_rel_clause(context.table_clauses,
                                    rte_of(context.rangeTableStack, expr.args[p.cell]), expr) ]
            ELSE context)

(* T_OpExpr with a supported operator, p being the result of the first foreach *)
walker_OpExpr_supported(expr, context, p) ==
    IF p.err THEN [ context EXCEPT !.err = TRUE ]
    ELSE IF p.found
    THEN [ context EXCEPT !.table_clauses =
                add_rel_clause(context.table_clauses,
                               rte_of(context.rangeTableStack, expr.args[p.cell]), expr) ]
    ELSE walker_op_args(expr.args, 1, context)

(* T_OpExpr *)
walker_OpExpr(expr, context) ==
    IF expr.opno \notin SupportedOps THEN context
    ELSE walker_OpExpr_supported(expr, context,
            op_partial_scan(expr.args, 1, context.rangeTableStack))

(* T_Var with "cand->varattno[ 0 ] = expr->varno" *)
walker_Var_rte_varno(expr, context, rte) ==
    IF rte.rtekind # "RELATION" THEN context
    ELSE IF /\ RelationNeedsWAL(rte.relid)
            /\ ~IsSystemRelation(rte.relid)
            /\ expr.varattno > 0
    THEN IF get_attname(rte.relid, expr.varattno) = ""
         THEN [ context EXCEPT !.err = TRUE ]
         ELSE [ context EXCEPT !.candidates =
                  << IndexCandidate(expr.varno, rte.relid, rte.aliasname,
                                    << expr.varno >>, NIL, rte.inh, 0) >> ]
    ELSE context

(* T_Var, rte being the entry of the range table the Var names *)
walker_Var_rte(expr, context, rte) ==
    IF rte.rtekind # "RELATION" THEN context
    ELSE IF /\ RelationNeedsWAL(rte.relid)
            /\ ~IsSystemRelation(rte.relid)
            /\ expr.varattno > 0
    THEN IF get_attname(rte.relid, expr.varattno) = ""
         THEN [ context EXCEPT !.err = TRUE ]
         ELSE [ context EXCEPT !.candidates =
                  << IndexCandidate(expr.varno, rte.relid, rte.aliasname,
                                    << expr.varattno >>, NIL, rte.inh, 0) >> ]
    ELSE context

(* T_Var *)
walker_Var(expr, context) ==
    walker_Var_rte(expr, context, rte_of(context.rangeTableStack, expr))

(* T_Query *)
walker_Query(qry, context) ==
    assign_to_context(context,
        scan_query(qry, context.rangeTableStack, context.table_clauses, context.err))

(* T_FuncExpr: the loop that follows the first argument down to a Var or   *)
(* Const.  Result: the node it stops at, or Null when it is "too complex". *)
RECURSIVE func_bottom(_)
func_bottom(func_var) ==
    IF func_var.tag \in { "Var", "Const" } THEN func_var
    ELSE IF func_var.tag = "FuncExpr"
    THEN IF Len(func_var.args) = 0 THEN Null ELSE func_bottom(func_var.args[1])
    ELSE IF func_var.tag = "OpExpr" THEN Null
    ELSE IF func_var.tag = "RelabelType" THEN func_bottom(func_var.arg)
    ELSE Null

(* T_FuncExpr whose first argument leads to the Var func_var of entry rte *)
walker_FuncExpr_rte(expr, context, func_var, rte) ==
    IF func_var.varattno = 0
    \* cand is used without having been allocated
    THEN [ context EXCEPT !.err = TRUE ]
    ELSE IF rte.rtekind # "RELATION"
    THEN expression_tree_walker(expr, context)
    ELSE IF get_attname(rte.relid, func_var.varattno) = ""
    THEN [ context EXCEPT !.err = TRUE ]
    ELSE [ context EXCEPT !.candidates =
             << IndexCandidate(0, rte.relid, rte.aliasname,
                               << 0 >>, << expr >>, rte.inh, 0) >> ]

walker_FuncExpr_var(expr, context, func_var) ==
    IF func_var.tag # "Var" THEN expression_tree_walker(expr, context)
    ELSE walker_FuncExpr_rte(expr, context, func_var,
                             rte_of(context.rangeTableStack, func_var))

(* T_FuncExpr *)
walker_FuncExpr(expr, context) ==
    IF Len(expr.args) = 0 THEN expression_tree_walker(expr, context)
    ELSE walker_FuncExpr_var(expr, context, func_bottom(expr.args[1]))

index_candidates_walker(root, context) ==
    IF context.err \/ root.tag = "NULL" THEN context
    ELSE CASE root.tag = "BoolExpr" ->
                IF root.boolop # "AND" THEN walker_BoolExpr_or(root, context)
                                       ELSE walker_BoolExpr_and(root, context)
           [] root.tag = "OpExpr" -> walker_OpExpr(root, context)
           [] root.tag = "Var" -> walker_Var(root, context)
           [] root.tag = "Query" -> walker_Query(root, context)
           [] root.tag = "FuncExpr" -> walker_FuncExpr(root, context)
           [] OTHER -> expression_tree_walker(root, context)

(* scan_generic_node: a fresh ScanContext, walked from root *)
scan_generic_node(root, rangeTableStack, clauses, err) ==
    index_candidates_walker(root, ScanContext(NIL, rangeTableStack, clauses, err))

(***************************************************************************)
(* scan_query and its helpers.  Each returns [candidates, table_clauses,   *)
(* err]: the list it returns in C, the global it may have appended to, and *)
(* whether an ERROR left it.                                               *)
(***************************************************************************)
ScanResult(cands, clauses, err) ==
    [ candidates |-> cands, table_clauses |-> clauses, err |-> err ]

(* candidates = merge_candidates( candidates, <scan> ) *)
merge_into_result(acc, r) ==
    ScanResult(merge_candidates(acc.candidates, r.candidates), r.table_clauses, r.err)

(* the foreach over query->cteList *)
scan_cteList(cteList, cell, rangeTableStack, acc) ==
    IF cell > Len(cteList) \/ acc.err THEN acc
    ELSE scan_cteList(cteList, cell + 1, rangeTableStack,
            merge_into_result(acc,
                scan_query(cteList[cell], rangeTableStack, acc.table_clauses, acc.err)))

(* the foreach over query->rtable: "if( rte->subquery )" *)
scan_rte_subquery(rte, rangeTableStack, acc) ==
    IF rte.subquery.tag = "NULL" THEN acc
    ELSE merge_into_result(acc,
            scan_query(rte.subquery, rangeTableStack, acc.table_clauses, acc.err))

(* the foreach over query->rtable: "if (rte->joinaliasvars)" *)
scan_rte_joinaliasvars(rte, rangeTableStack, acc) ==
    IF rte.joinaliasvars = << >> \/ acc.err THEN acc
    ELSE merge_into_result(acc,
            scan_generic_node(NodeList(rte.joinaliasvars), rangeTableStack,
                              acc.table_clauses, acc.err))

(* the foreach over query->rtable *)
scan_rtable(rtable, cell, rangeTableStack, acc) ==
    IF cell > Len(rtable) \/ acc.err THEN acc
    ELSE scan_rtable(rtable, cell + 1, rangeTableStack,
            scan_rte_joinaliasvars(rtable[cell], rangeTableStack,
                scan_rte_subquery(rtable[cell], rangeTableStack, acc)))

(* scan_group_clause: groupList holds the tleSortGroupRef of each entry *)
scan_group_loop(groupList, targetList, cell, rangeTableStack, acc) ==
    IF cell > Len(groupList) \/ acc.err THEN acc
    ELSE scan_group_loop(groupList, targetList, cell + 1, rangeTableStack,
            merge_into_result(acc,
                scan_generic_node(targetList[groupList[cell]], rangeTableStack,
                                  acc.table_clauses, acc.err)))

scan_group_clause(groupList, targetList, rangeTableStack, clauses, err) ==
    scan_group_loop(groupList, targetList, 1, rangeTableStack, ScanResult(NIL, clauses, err))

(* scan_targetList *)
scan_target_loop(targetList, cell, rangeTableStack, acc) ==
    IF cell > Len(targetList) \/ acc.err THEN acc
    ELSE scan_target_loop(targetList, cell + 1, rangeTableStack,
            merge_into_result(acc,
                scan_generic_node(targetList[cell], rangeTableStack,
                                  acc.table_clauses, acc.err)))

scan_targetList(targetList, rangeTableStack, clauses, err) ==
    scan_target_loop(targetList, 1, rangeTableStack, ScanResult(NIL, clauses, err))

(* expand_inherited_rel_clauses: the loop runs over table_clauses while it *)
(* appends to it, so the clauses made for children are visited as well.    *)
RECURSIVE rel_clause_clones(_, _, _)
rel_clause_clones(cand, inhOIDs, l) ==
    IF l > Len(inhOIDs) THEN << >>
    ELSE << [ reloid |-> inhOIDs[l], erefAlias |-> cand.erefAlias,
              predicate |-> cand.predicate ] >>
         \o rel_clause_clones(cand, inhOIDs, l + 1)

RECURSIVE expand_rel_clauses_loop(_, _)
expand_rel_clauses_loop(clauses, cell) ==
    IF cell > Len(clauses) THEN clauses
    ELSE expand_rel_clauses_loop(
            clauses \o rel_clause_clones(clauses[cell],
                                         find_inheritance_children(clauses[cell].reloid), 1),
            cell + 1)

expand_inherited_rel_clauses(clauses) == expand_rel_clauses_loop(clauses, 1)

(* scan_query: 'scan "where" from the current query'; found carries the    *)
(* table_clauses and the error state of the scans made so far              *)
scan_where(qry, rangeTableStack, found) ==
    IF qry.quals.tag = "NULL" \/ found.err
    THEN ScanResult(NIL, found.table_clauses, found.err)
    ELSE assign_to_context(found,
            scan_generic_node(qry.quals, rangeTableStack, found.table_clauses, found.err))

(* scan_query: 'if no indexcadidate found in "where", scan "group"' *)
scan_group(qry, rangeTableStack, found) ==
    IF found.candidates = NIL /\ qry.groupClause # << >> /\ ~found.err
    THEN scan_group_clause(qry.groupClause, qry.targetList, rangeTableStack,
                           found.table_clauses, found.err)
    ELSE found

(* scan_query: 'if no indexcadidate found in "group", scan "order by"' *)
scan_sort(qry, rangeTableStack, found) ==
    IF found.candidates = NIL /\ qry.sortClause # << >> /\ ~found.err
    THEN scan_group_clause(qry.sortClause, qry.targetList, rangeTableStack,
                           found.table_clauses, found.err)
    ELSE found

(* scan_query: 'if no indexcadidate found until now, scan the target list' *)
scan_select(qry, rangeTableStack, found) ==
    IF found.candidates = NIL /\ qry.targetList # << >> /\ ~found.err
    THEN scan_targetList(qry.targetList, rangeTableStack, found.table_clauses, found.err)
    ELSE found

(* scan_query: merge, expand_inherited_candidates, expand_inherited_rel_clauses *)
scan_query_merge(fromSubqueries, newCandidates) ==
    IF newCandidates.err THEN ScanResult(NIL, newCandidates.table_clauses, TRUE)
    ELSE ScanResult(
            expand_inherited_candidates(
                merge_candidates(fromSubqueries.candidates, newCandidates.candidates)),
            expand_inherited_rel_clauses(newCandidates.table_clauses),
            FALSE)

(* scan_query once the CTEs and the range table have been scanned *)
scan_query_clauses(qry, rangeTableStack, fromSubqueries) ==
    scan_query_merge(fromSubqueries,
        scan_select(qry, rangeTableStack,
            scan_sort(qry, rangeTableStack,
                scan_group(qry, rangeTableStack,
                    scan_where(qry, rangeTableStack,
                               ScanResult(NIL, fromSubqueries.table_clauses,
                                          fromSubqueries.err))))))

(* scan_query with the range table of the query pushed on the stack *)
scan_query_stacked(qry, rangeTableStack, clauses, err) ==
    scan_query_clauses(qry, rangeTableStack,
        scan_rtable(qry.rtable, 1, rangeTableStack,
            scan_cteList(qry.cteList, 1, rangeTableStack, ScanResult(NIL, clauses, err))))

scan_query(qry, rangeTableStack, clauses, err) ==
    scan_query_stacked(qry, << qry.rtable >> \o rangeTableStack, clauses, err)

(***************************************************************************)
(* What the scan writes into the tree it walks.  makePredicateClause sets  *)
(* "VarArg->varno=1" in the Var it is handed, which is a node of the query *)
(* tree; nothing else is written.  walker_writes gives a node as the       *)
(* walker leaves it, along the paths on which it reaches an OpExpr: the    *)
(* arguments of BoolExpr, List, RelabelType and unmatched OpExpr nodes,    *)
(* sublinks, and the WHERE clauses of the query, its CTEs and the          *)
(* subqueries of its range table.                                          *)
(***************************************************************************)
RECURSIVE walker_writes(_, _)
RECURSIVE scan_query_writes(_, _)

(* T_OpExpr with a supported operator, p being the result of the first foreach *)
walker_OpExpr_writes(expr, rangeTableStack, p) ==
    IF p.err THEN expr
    ELSE IF p.found
    THEN IF expr.args[1].tag = "Var" THEN [ expr EXCEPT !.args[1].varno = 1 ]
                                     ELSE [ expr EXCEPT !.args[2].varno = 1 ]
    ELSE [ expr EXCEPT !.args =
             [ k \in 1..Len(expr.args) |-> walker_writes(expr.args[k], rangeTableStack) ] ]

walker_writes(root, rangeTableStack) ==
    CASE root.tag = "OpExpr" ->
            IF root.opno \notin SupportedOps THEN root
            ELSE walker_OpExpr_writes(root, rangeTableStack,
                    op_partial_scan(root.args, 1, rangeTableStack))
      [] root.tag \in { "BoolExpr", "List" } ->
            [ root EXCEPT !.args =
                [ k \in 1..Len(root.args) |-> walker_writes(root.args[k], rangeTableStack) ] ]
      [] root.tag = "RelabelType" ->
            [ root EXCEPT !.arg = walker_writes(root.arg, rangeTableStack) ]
      [] root.tag = "SubLink" ->
            [ root EXCEPT !.subselect = walker_writes(root.subselect, rangeTableStack) ]
      [] root.tag = "Query" -> scan_query_writes(root, rangeTableStack)
      [] OTHER -> root

scan_query_writes(qry, rangeTableStack) ==
    [ qry EXCEPT
        !.cteList = [ k \in 1..Len(qry.cteList) |->
                        scan_query_writes(qry.cteList[k], << qry.rtable >> \o rangeTableStack) ],
        !.rtable = [ k \in 1..Len(qry.rtable) |->
                        [ qry.rtable[k] EXCEPT !.subquery =
                            walker_writes(qry.rtable[k].subquery,
                                          << qry.rtable >> \o rangeTableStack) ] ],
        !.quals = walker_writes(qry.quals, << qry.rtable >> \o rangeTableStack) ]

(***************************************************************************)
(* remove_irrelevant_candidates.  cell is the position of the outer loop;  *)
(* deleting a cell keeps the positions before it and shifts the later ones *)
(* down by one, so "cell = next" after deleting the current cell leaves    *)
(* the position unchanged.                                                 *)
(***************************************************************************)
delete_cell(list, cell2) == SubSeq(list, 1, cell2 - 1) \o SubSeq(list, cell2 + 1, Len(list))

(* unsupported relation: the for loop deleting every candidate of base_rel_oid from cell on *)
RECURSIVE remove_relation_from(_, _, _)
remove_relation_from(list, cell2, base_rel_oid) ==
    IF cell2 > Len(list) THEN list
    ELSE IF list[cell2].reloid = base_rel_oid
    THEN remove_relation_from(delete_cell(list, cell2), cell2, base_rel_oid)
    ELSE remove_relation_from(list, cell2 + 1, base_rel_oid)

(* the ncols test and the do-while over the key attribute numbers *)
RECURSIVE match_attnos(_, _, _)
match_attnos(cand, old_index_info, i) ==
    LET key == IF i < Len(old_index_info.keys) THEN old_index_info.keys[i + 1] ELSE 0
        cmp == Attno(cand, i) - key
    IN  IF cmp = 0 /\ (i + 1) < cand.ncols
        THEN match_attnos(cand, old_index_info, i + 1)
        ELSE cmp

candidate_matches_index(cand, old_index_info) ==
    LET cmp == cand.ncols - Len(old_index_info.keys)
    IN  IF cmp # 0 THEN FALSE ELSE match_attnos(cand, old_index_info, 0) = 0

(* search for a matching candidate: every cell from cell on is compared,   *)
(* whatever its relation; the first match is deleted and the search ends   *)
RECURSIVE first_match(_, _, _)
first_match(list, cell2, old_index_info) ==
    IF cell2 > Len(list) THEN 0
    ELSE IF candidate_matches_index(list[cell2], old_index_info) THEN cell2
    ELSE first_match(list, cell2 + 1, old_index_info)

(* the foreach over the existing indexes of base_rel *)
RECURSIVE remove_matching(_, _, _, _, _)
(* hit is the cell deleted for the index at index_cell, 0 when there is none *)
remove_matching_hit(list, cell, old_indexes, index_cell, moved, hit) ==
    IF hit = 0
    THEN remove_matching(list, cell, old_indexes, index_cell + 1, moved)
    ELSE remove_matching(delete_cell(list, hit), cell, old_indexes, index_cell + 1,
                         moved \/ hit = cell)

(* only valid indexes without expressions and without a predicate are compared *)
index_hit(list, cell, old_index_info) ==
    IF old_index_info.valid /\ ~old_index_info.exprs /\ ~old_index_info.pred
    THEN first_match(list, cell, old_index_info)
    ELSE 0

remove_matching(list, cell, old_indexes, index_cell, moved) ==
    IF index_cell > Len(old_indexes) THEN [ list |-> list, moved |-> moved ]
    ELSE remove_matching_hit(list, cell, old_indexes, index_cell, moved,
                             index_hit(list, cell, old_indexes[index_cell]))

RECURSIVE remove_irrelevant_loop(_, _)
(* "if( cell == old_cell )": the outer loop advances unless its cell was deleted *)
remove_irrelevant_next(cell, r) ==
    remove_irrelevant_loop(r.list, IF r.moved THEN cell ELSE cell + 1)

(* a filter that does not test the kind of the relation *)
remove_irrelevant_cell_any_relation(list, cell, base_rel_oid) ==
    remove_irrelevant_next(cell,
        remove_matching(list, cell, Catalog(base_rel_oid).indexes, 1, FALSE))

remove_irrelevant_cell(list, cell, base_rel_oid) ==
    IF ~RelationNeedsWAL(base_rel_oid) \/ IsSystemRelation(base_rel_oid)
    THEN remove_irrelevant_loop(remove_relation_from(list, cell, base_rel_oid), cell)
    ELSE remove_irrelevant_next(cell,
            remove_matching(list, cell, Catalog(base_rel_oid).indexes, 1, FALSE))

remove_irrelevant_loop(list, cell) ==
    IF cell > Len(list) THEN list
    ELSE remove_irrelevant_cell(list, cell, list[cell].reloid)

remove_irrelevant_candidates(list) == remove_irrelevant_loop(list, 1)

(***************************************************************************)
(* create_virtual_indexes: one index_create per candidate.  firstOid is    *)
(* the Oid the catalog hands out next.  indexInfo is allocated once before *)
(* the loop, and ii_Expressions is extended for every candidate.           *)
(***************************************************************************)
RECURSIVE create_virtual_loop(_, _, _, _, _)
create_virtual_loop(list, cell, firstOid, ii_Expressions, clauses) ==
    IF cell > Len(list) THEN [ candidates |-> list, indexes |-> << >> ]
    ELSE LET cand == list[cell]
             exprs == list_concat_unique(ii_Expressions, cand.attList)
             idxoid == firstOid + cell - 1
             rest == create_virtual_loop([ list EXCEPT ![cell].idxoid = idxoid ],
                                         cell + 1, firstOid, exprs, clauses)
         IN  [ candidates |-> rest.candidates,
               indexes |-> << [ indexoid |-> idxoid, reloid |-> cand.reloid,
                                keys |-> cand.varattno, ii_Expressions |-> exprs,
                                ii_Predicate |-> get_rel_clauses(clauses, cand.reloid,
                                                                 cand.erefAlias) ] >>
                           \o rest.indexes ]

create_virtual_indexes(list, firstOid, clauses) ==
    create_virtual_loop(list, 1, firstOid, NIL, clauses)

(* estimate_index_pages: the tuples of the heap times the width of the     *)
(* index tuple, here one unit per key column                               *)
estimate_index_pages(rel_oid, natts) == Catalog(rel_oid).reltuples * natts

(***************************************************************************)
(* get_relation_info_callback.  rel->indexlist is rebuilt from             *)
(* RelationGetIndexList: one IndexOptInfo, marked hypothetical, for every  *)
(* index the catalog holds for the relation, whether real or virtual;      *)
(* lcons puts the last one first.  catalog is the list of virtual entries. *)
(***************************************************************************)
get_relation_info_callback(relationObjectId, catalog) ==
    LET indexoidlist ==
            [ k \in 1..Len(Catalog(relationObjectId).indexes) |->
                Catalog(relationObjectId).indexes[k].indexoid ]
            \o SelectSeq([ k \in 1..Len(catalog) |-> k ],
                         LAMBDA oid : catalog[oid] = relationObjectId)
    IN  [ k \in 1..Len(indexoidlist) |->
            [ indexoid |-> indexoidlist[Len(indexoidlist) + 1 - k], hypothetical |-> TRUE ] ]

(* the is_virtual_index branch of the callback: cand->pages is the rounded *)
(* product of the selectivity of the index predicate (1 without one) and   *)
(* the estimated pages, and at least 1                                     *)
virtual_index_pages(cand, indpred, btreeSelectivity) ==
    IF (IF indpred = NIL THEN 1 ELSE btreeSelectivity)
       * estimate_index_pages(cand.reloid, cand.ncols) = 0
    THEN 1
    ELSE (IF indpred = NIL THEN 1 ELSE btreeSelectivity)
         * estimate_index_pages(cand.reloid, cand.ncols)

(* "int8 totalSize = 0; foreach totalSize += pages" over the first cell    *)
(* candidates                                                              *)
RECURSIVE totalSize(_, _)
totalSize(list, cell) ==
    IF cell = 0 THEN 0 ELSE WrapInt8(totalSize(list, cell - 1) + list[cell].pages)

(* the share of the cost saved that every candidate is given *)
candidate_benefits(totalCostSaved, list, size) ==
    [ k \in 1..Len(list) |->
        [ list[k] EXCEPT !.benefit = [ num |-> totalCostSaved * list[k].pages, den |-> size ] ] ]

(* mark_used_candidates: idxused is or-ed with "a scan node names idxoid" *)
mark_used_candidates(indexids, list) ==
    [ k \in 1..Len(list) |->
        [ list[k] EXCEPT !.idxused = list[k].idxused \/ (list[k].idxoid \in indexids) ] ]

(* tag_and_remove_candidates *)
tag_and_remove_candidates(startupCostSaved, totalCostSaved, plan, list) ==
    IF startupCostSaved > 0 \/ totalCostSaved > 0
    THEN mark_used_candidates(plan.indexids, list)
    ELSE list

(***************************************************************************)
(* Plans.  A plan is what standard_planner returns: its costs, whether it  *)
(* was planned with get_relation_info_callback installed, and the Oids of  *)
(* the candidates' indexes its scan nodes name (mark_used_candidates looks *)
(* for nothing else in it).  NoPlan is the NULL plan.                      *)
(***************************************************************************)
NoPlan == [ tag |-> "NULL" ]
Costs == 1..MaxCost
PlannedStmt(hypothetical, total_cost, indexids) ==
    [ tag |-> "PlannedStmt", hypothetical |-> hypothetical, startup_cost |-> 0,
      total_cost |-> total_cost, indexids |-> indexids ]

(***************************************************************************)
(* The statements the host plans.  Aliases are the relation names "t",     *)
(* "t1", "m", "i", "x", "c", "s" as byte strings.                          *)
(***************************************************************************)
AliasOf(relid) ==
    CASE relid = 1 -> << 116 >>
      [] relid = 2 -> << 116, 49 >>
      [] relid = 3 -> << 109 >>
      [] relid = 6 -> << 105 >>
      [] OTHER     -> << 120 >>

RelationRte(relid) == RangeTblEntry("RELATION", relid, AliasOf(relid), TRUE, Null)

(* the target list of "select *" over the first range-table entry *)
StarOf(relid) == [ k \in 1..Len(Catalog(relid).attname) |-> Var(1, k, 0) ]

Equality(attno, varLeft) ==
    IF varLeft THEN OpExpr("=", Var(1, attno, 0), Const)
               ELSE OpExpr("=", Const, Var(1, attno, 0))

(* select * from <relid> where <quals> *)
SelectWhere(relid, quals) ==
    Query(<< RelationRte(relid) >>, << >>, quals, << >>, << >>, StarOf(relid))

(* base.sql:11,13  select * from t where a = 100 *)
QSingle(relid, attno, varLeft) == SelectWhere(relid, Equality(attno, varLeft))

(* base.sql:15  select * from t where a = 100 and b = 100 *)
QAnd(relid, a, b) ==
    SelectWhere(relid, BoolExpr("AND", << Equality(a, TRUE), Equality(b, TRUE) >>))

(* base.sql:17  select * from t where a = 100 or b = 100 *)
QOr(relid, a, b) ==
    SelectWhere(relid, BoolExpr("OR", << Equality(a, TRUE), Equality(b, TRUE) >>))

(* select * from t where not (a = 100) *)
QNot(relid, a) == SelectWhere(relid, BoolExpr("NOT", << Equality(a, TRUE) >>))

(* base.sql:22  with c as (select * from t where a = 100) select * from c *)
QCte(relid, attno) ==
    Query(<< RangeTblEntry("CTE", 0, << 99 >>, FALSE, Null) >>,
          << QSingle(relid, attno, TRUE) >>, Null, << >>, << >>,
          << Var(1, 1, 0), Var(1, 2, 0) >>)

(* select * from (select * from t) s where s.a = 100 *)
QSubquery(relid, attno) ==
    Query(<< RangeTblEntry("SUBQUERY", 0, << 115 >>, FALSE,
                           SelectWhere(relid, Null)) >>,
          << >>, Equality(attno, TRUE), << >>, << >>, << Var(1, 1, 0) >>)

(* select 1 from t join t1 on true: the range-table entry of the join     *)
(* lists the columns of its two sides in joinaliasvars                     *)
QJoin(larg, rarg) ==
    Query(<< RelationRte(larg), RelationRte(rarg),
             [ RangeTblEntry("JOIN", 0, << 106 >>, FALSE, Null)
                 EXCEPT !.joinaliasvars =
                     [ k \in 1..Len(Catalog(larg).attname) |-> Var(1, k, 0) ]
                     \o [ k \in 1..Len(Catalog(rarg).attname) |-> Var(2, k, 0) ] ] >>,
          << >>, Null, << >>, << >>, << Const >>)

(* select 1 from t where a <> 100 *)
QOperator(relid, opno, attno) ==
    Query(<< RelationRte(relid) >>, << >>, OpExpr(opno, Var(1, attno, 0), Const),
          << >>, << >>, << Const >>)

(* select 1 *)
QConst == Query(<< >>, << >>, Null, << >>, << >>, << Const >>)

(* the statement store_idx_advice builds: insert into index_advisory values (...) *)
QInsertAdvice ==
    Query(<< RangeTblEntry("RELATION", 8, << 120 >>, FALSE, Null) >>,
          << >>, Null, << >>, << >>, << Const >>)

ScanQueries ==
    { QSingle(r, a, vl) : r \in { 1, 2, 6 }, a \in 1..2, vl \in BOOLEAN }
    \cup { QAnd(r, a, b) : r \in { 1, 2 }, a \in 1..2, b \in 1..2 }
    \cup { QOr(r, a, b) : r \in { 1, 2 }, a \in 1..2, b \in 1..2 }
    \cup { QCte(r, a) : r \in { 1, 2 }, a \in 1..2 }
    \cup { QNot(1, 1), QSubquery(1, 1), QConst, QSingle(3, 4, TRUE), QSingle(7, 1, TRUE),
           QSingle(1, 3, TRUE), QAnd(1, 3, 1), QCte(3, 4), QOr(3, 1, 4),
           QJoin(1, 2), QOperator(2, "<>", 1), QOperator(2, "<", 1),
           \* select t1.a from t1, t where t.is_deleted = 100
           Query(<< RelationRte(2), RelationRte(1) >>, << >>,
                 OpExpr("=", Var(2, 3, 0), Const), << >>, << >>, << Var(1, 1, 0) >>),
           \* select * from t1 where a = 100 or lower(c) = 'x', the attribute c
           \* (number 3) being one the catalog has no name for
           SelectWhere(2, BoolExpr("OR",
               << Equality(1, TRUE),
                  OpExpr("=", FuncExpr("lower", << Var(1, 3, 0) >>), Const) >>)),
           \* select * from t1 where a = 100 or lower(b) = 'x'
           SelectWhere(2, BoolExpr("OR",
               << Equality(1, TRUE),
                  OpExpr("=", FuncExpr("lower", << Var(1, 2, 0) >>), Const) >>)) }

(* the statements of the advisory pass *)
Queries ==
    { QSingle(1, 1, TRUE), QSingle(6, 1, TRUE), QAnd(1, 1, 2),
      QOr(1, 1, 2), QCte(1, 1), QSubquery(1, 1), QConst, QSingle(3, 4, TRUE),
      QAnd(1, 3, 1), QAnd(1, 3, 3), QSingle(6, 2, TRUE) }

(***************************************************************************)
(* The advisory pass.                                                      *)
(***************************************************************************)
AdvStates == { "ok", "missing", "not_table" }
Unread == "unread"
AdvisoryStages == { "scan", "install", "replan", "attribute", "emission" }
NoNested == [ ran |-> FALSE, suppressed |-> FALSE, guardAtEntry |-> 0 ]

(* the relations standard_planner builds a RelOptInfo for: those of the    *)
(* range table with their inheritance children, of the sub-queries and of  *)
(* the common table expressions                                            *)
RECURSIVE PlannedRelations(_)
PlannedRelations(qry) ==
    UNION ( { CASE qry.rtable[k].rtekind = "RELATION" ->
                     { qry.rtable[k].relid }
                     \cup ( IF qry.rtable[k].inh
                            THEN { find_inheritance_children(qry.rtable[k].relid)[c] :
                                   c \in 1..Len(find_inheritance_children(qry.rtable[k].relid)) }
                            ELSE { } )
                [] qry.rtable[k].rtekind = "SUBQUERY" -> PlannedRelations(qry.rtable[k].subquery)
                [] OTHER -> { }
              : k \in 1..Len(qry.rtable) }
            \cup { PlannedRelations(qry.cteList[k]) : k \in 1..Len(qry.cteList) } )

(* the indexes the planner may name in scan nodes: those of rel->indexlist *)
(* of the planned relations                                                *)
IndexesSeen(qry, catalog) ==
    UNION { { get_relation_info_callback(rel, catalog)[k].indexoid :
              k \in 1..Len(get_relation_info_callback(rel, catalog)) } :
            rel \in PlannedRelations(qry) }

(* standard_planner: the plan sees hypothetical indexes only through the hook *)
standard_planner(hook, total_cost, indexids) ==
    PlannedStmt(hook, total_cost, IF hook THEN indexids ELSE { })

(* "IsBootstrapProcessingMode() || SuppressRecursion++ > 0": the increment *)
(* is skipped when the left operand is true                                *)
guard_test(g, boot) ==
    [ skip |-> boot \/ g > 0,
      SuppressRecursion |-> IF boot THEN g ELSE WrapInt8(g + 1) ]

(* DoneCleanly: --SuppressRecursion *)
guard_release(g) == WrapInt8(g - 1)

(* PG_CATCH of the callbacks: the error that leaves the catch block *)
caught_error_rethrown(err) == err
caught_error(err) == "none"

Init ==
    /\ pc = "Idle"
    /\ caller = "none"
    /\ query = QConst
    /\ bootstrap = FALSE
    /\ SuppressRecursion = 0
    /\ get_relation_info_hook = FALSE
    /\ index_candidates = NIL
    /\ table_clauses = NIL
    /\ candidates = NIL
    /\ saveCandidates = FALSE
    /\ new_plan = NoPlan
    /\ actual_plan = NoPlan
    /\ subxactOpen = FALSE
    /\ subxactLeaked = 0
    /\ virtualIndexes = << >>
    /\ emitIdx = 0
    /\ errorRaised = "none"
    /\ passError = "none"
    /\ emissionEntered = FALSE
    /\ hostPlan = NoPlan
    /\ hostError = "none"
    /\ warnings = 0
    /\ inserts = 0
    /\ printed = 0
    /\ nested = NoNested
    /\ idxadv_read_only \in BOOLEAN
    /\ idxadv_composit_max_cols = DefaultCompositMaxCols
    /\ advTable = Unread
    /\ uninit = FALSE

(* resetSecondaryHooks and the first standard_planner call of a callback;  *)
(* an ERROR of the standard planner is outside any PG_TRY                  *)
callback_enter ==
    /\ pc = "Idle"
    /\ get_relation_info_hook' = FALSE
    /\ \E planned \in BOOLEAN :
        IF planned
        THEN \E q \in Queries, b \in BOOLEAN, cost \in Costs :
                /\ b => SuppressRecursion > -MaxBootstrap
                /\ query' = q
                /\ bootstrap' = b
                /\ actual_plan' = standard_planner(get_relation_info_hook', cost, { })
                /\ hostError' = "none"
                /\ pc' = "index_adviser"
        ELSE /\ actual_plan' = NoPlan
             /\ hostError' = "standard_planner"
             /\ pc' = "Done"
             /\ UNCHANGED << query, bootstrap >>
    /\ UNCHANGED << SuppressRecursion, index_candidates, table_clauses, candidates, saveCandidates,
                    new_plan, subxactOpen, subxactLeaked, virtualIndexes, emitIdx, errorRaised,
                    passError, emissionEntered, warnings, inserts, printed, nested,
                    idxadv_read_only, idxadv_composit_max_cols, advTable, uninit >>

(* planner_callback up to the PG_TRY *)
planner_callback ==
    /\ caller' = "planner"
    /\ callback_enter
    /\ hostPlan' = NoPlan

(* ExplainOneQuery_callback up to the PG_TRY: the plan of the standard     *)
(* planner is explained before the advisory pass starts                    *)
ExplainOneQuery_callback ==
    /\ caller' = "explain"
    /\ callback_enter
    /\ hostPlan' = actual_plan'

(* index_adviser, up to the reset of the globals *)
index_adviser ==
    /\ pc = "index_adviser"
    /\ LET t == guard_test(SuppressRecursion, bootstrap)
       IN  IF t.skip
           THEN /\ new_plan' = NoPlan
                /\ SuppressRecursion' = t.SuppressRecursion
                /\ pc' = "DoneCleanly"
                /\ UNCHANGED << index_candidates, table_clauses >>
           ELSE /\ SuppressRecursion' = t.SuppressRecursion
                /\ index_candidates' = NIL
                /\ table_clauses' = NIL
                /\ new_plan' = NoPlan
                /\ pc' = "scan"
    /\ UNCHANGED << caller, query, bootstrap, get_relation_info_hook, candidates,
                    saveCandidates, actual_plan, subxactOpen, subxactLeaked, virtualIndexes,
                    emitIdx, errorRaised, passError, emissionEntered, hostPlan, hostError,
                    warnings, inserts, printed, nested, idxadv_read_only,
                    idxadv_composit_max_cols, advTable, uninit >>

(* the contents of the memory that palloc hands to the scan *)
Palloc ==
    /\ pc = "scan"
    /\ ~uninit
    /\ uninit' = TRUE
    /\ UNCHANGED << pc, caller, query, bootstrap, SuppressRecursion, get_relation_info_hook,
                    index_candidates, table_clauses, candidates, saveCandidates, new_plan,
                    actual_plan, subxactOpen, subxactLeaked, virtualIndexes, emitIdx,
                    errorRaised, passError, emissionEntered, hostPlan, hostError, warnings,
                    inserts, printed, nested, idxadv_read_only, idxadv_composit_max_cols,
                    advTable >>

(* candidates = scan_query( queryCopy, opnos, NULL ) and the NIL test *)
Scan ==
    /\ pc = "scan"
    /\ \E r \in { scan_query(query, << >>, table_clauses, FALSE) } :
           /\ table_clauses' = r.table_clauses
           /\ IF r.err
              THEN /\ errorRaised' = "scan"
                   /\ passError' = "scan"
                   /\ pc' = "catch"
                   /\ UNCHANGED candidates
              ELSE /\ candidates' = r.candidates
                   /\ pc' = IF r.candidates = NIL THEN "DoneCleanly" ELSE "filter"
                   /\ UNCHANGED << errorRaised, passError >>
    /\ query' = scan_query_writes(query, << >>)
    /\ uninit' = FALSE
    /\ UNCHANGED << caller, bootstrap, SuppressRecursion, get_relation_info_hook,
                    index_candidates, saveCandidates, new_plan, actual_plan, subxactOpen,
                    subxactLeaked, virtualIndexes, emitIdx, emissionEntered, hostPlan,
                    hostError, warnings, inserts, printed, nested, idxadv_read_only,
                    idxadv_composit_max_cols, advTable >>

(* remove_irrelevant_candidates and the second NIL test *)
Filter ==
    /\ pc = "filter"
    /\ candidates' = remove_irrelevant_candidates(candidates)
    /\ pc' = IF candidates' = NIL THEN "DoneCleanly" ELSE "spi_connect"
    /\ UNCHANGED << caller, query, bootstrap, SuppressRecursion, get_relation_info_hook,
                    index_candidates, table_clauses, saveCandidates, new_plan, actual_plan,
                    subxactOpen, subxactLeaked, virtualIndexes, emitIdx, errorRaised,
                    passError, emissionEntered, hostPlan, hostError, warnings, inserts,
                    printed, nested, idxadv_read_only, idxadv_composit_max_cols, advTable,
                    uninit >>

(* SPI_connect and BeginInternalSubTransaction *)
Connect ==
    /\ pc = "spi_connect"
    /\ \E connected \in BOOLEAN :
        IF connected
        THEN /\ subxactOpen' = TRUE
             /\ pc' = "create_virtual_indexes"
             /\ UNCHANGED warnings
        ELSE /\ warnings' = warnings + 1
             /\ pc' = "DoneCleanly"
             /\ UNCHANGED subxactOpen
    /\ UNCHANGED << caller, query, bootstrap, SuppressRecursion, get_relation_info_hook,
                    index_candidates, table_clauses, candidates, saveCandidates, new_plan,
                    actual_plan, subxactLeaked, virtualIndexes, emitIdx, errorRaised,
                    passError, emissionEntered, hostPlan, hostError, inserts, printed,
                    nested, idxadv_read_only, idxadv_composit_max_cols, advTable, uninit >>


(* create_virtual_indexes, index_candidates = candidates, the hook is set *)
Install ==
    /\ pc = "create_virtual_indexes"
    /\ \E r \in { create_virtual_indexes(candidates, Len(virtualIndexes) + 1, table_clauses) } :
           /\ candidates' = r.candidates
           /\ virtualIndexes' = virtualIndexes \o [ k \in 1..Len(r.indexes) |-> r.indexes[k].reloid ]
           /\ index_candidates' = r.candidates
    /\ get_relation_info_hook' = TRUE
    /\ pc' = "replan"
    /\ UNCHANGED << caller, query, bootstrap, SuppressRecursion, table_clauses, saveCandidates,
                    new_plan, actual_plan, subxactOpen, subxactLeaked, emitIdx, errorRaised,
                    passError, emissionEntered, hostPlan, hostError, warnings, inserts, printed,
                    nested, idxadv_read_only, idxadv_composit_max_cols, advTable, uninit >>

(* an ERROR inside create_virtual_indexes (index_create, palloc) *)
InstallError ==
    /\ pc = "create_virtual_indexes"
    /\ subxactLeaked < MaxLeaked
    /\ errorRaised' = "install"
    /\ passError' = "install"
    /\ pc' = "catch"
    /\ UNCHANGED << caller, query, bootstrap, SuppressRecursion, get_relation_info_hook,
                    index_candidates, table_clauses, candidates, saveCandidates, new_plan,
                    actual_plan, subxactOpen, subxactLeaked, virtualIndexes, emitIdx,
                    emissionEntered, hostPlan, hostError, warnings, inserts, printed, nested,
                    idxadv_read_only, idxadv_composit_max_cols, advTable, uninit >>

(* new_plan = standard_planner(...) with the hook installed: the callback  *)
(* runs for every planned relation and sizes the candidates found there;   *)
(* the hook is cleared, drop_virtual_indexes (which drops nothing)         *)
Replan ==
    /\ pc = "replan"
    /\ \E cost \in Costs :
       \E indexids \in SUBSET ( IndexesSeen(query, virtualIndexes)
                                \cap { candidates[k].idxoid : k \in 1..Len(candidates) } ) :
           new_plan' = standard_planner(get_relation_info_hook, cost, indexids)
    /\ \E btreeSelectivity \in 0..1 :
           candidates' =
               [ k \in 1..Len(candidates) |->
                   IF get_relation_info_hook /\ candidates[k].reloid \in PlannedRelations(query)
                   THEN [ candidates[k] EXCEPT !.pages =
                            virtual_index_pages(candidates[k],
                                get_rel_clauses(table_clauses, candidates[k].reloid,
                                                candidates[k].erefAlias),
                                btreeSelectivity) ]
                   ELSE candidates[k] ]
    /\ index_candidates' = candidates'
    /\ get_relation_info_hook' = FALSE
    /\ pc' = "attribute"
    /\ UNCHANGED << caller, query, bootstrap, SuppressRecursion, table_clauses,
                    saveCandidates, actual_plan, subxactOpen, subxactLeaked,
                    virtualIndexes, emitIdx, errorRaised, passError, emissionEntered, hostPlan,
                    hostError, warnings, inserts, printed, nested, idxadv_read_only,
                    idxadv_composit_max_cols, advTable, uninit >>

(* an ERROR inside the second standard_planner call, for instance from     *)
(* build_index_tlist reached through get_relation_info_callback            *)
ReplanError ==
    /\ pc = "replan"
    /\ subxactLeaked < MaxLeaked
    /\ errorRaised' = "replan"
    /\ passError' = "replan"
    /\ pc' = "catch"
    /\ UNCHANGED << caller, query, bootstrap, SuppressRecursion, get_relation_info_hook,
                    index_candidates, table_clauses, candidates, saveCandidates, new_plan,
                    actual_plan, subxactOpen, subxactLeaked, virtualIndexes, emitIdx,
                    emissionEntered, hostPlan, hostError, warnings, inserts, printed, nested,
                    idxadv_read_only, idxadv_composit_max_cols, advTable, uninit >>

(* tag_and_remove_candidates, index_candidates = candidates,               *)
(* saveCandidates, the benefit of every candidate, the copy of new_plan    *)
Attribute ==
    /\ pc = "attribute"
    /\ saveCandidates' = (Len(candidates) > 0)
    /\ candidates' =
           IF saveCandidates'
           THEN candidate_benefits(actual_plan.total_cost - new_plan.total_cost,
                    tag_and_remove_candidates(
                        actual_plan.startup_cost - new_plan.startup_cost,
                        actual_plan.total_cost - new_plan.total_cost,
                        new_plan, candidates),
                    totalSize(candidates, Len(candidates)))
           ELSE tag_and_remove_candidates(
                    actual_plan.startup_cost - new_plan.startup_cost,
                    actual_plan.total_cost - new_plan.total_cost,
                    new_plan, candidates)
    /\ index_candidates' = candidates'
    /\ new_plan' = IF saveCandidates' /\ caller = "explain" THEN new_plan ELSE NoPlan
    /\ pc' = "release"
    /\ UNCHANGED << caller, query, bootstrap, SuppressRecursion, get_relation_info_hook,
                    table_clauses, actual_plan, subxactOpen, subxactLeaked, virtualIndexes, emitIdx,
                    errorRaised, passError, emissionEntered, hostPlan, hostError, warnings, inserts,
                    printed, nested, idxadv_read_only, idxadv_composit_max_cols, advTable, uninit >>

(* an ERROR while the plans are compared and the candidates are tagged *)
AttributeError ==
    /\ pc = "attribute"
    /\ subxactLeaked < MaxLeaked
    /\ errorRaised' = "attribute"
    /\ passError' = "attribute"
    /\ pc' = "catch"
    /\ UNCHANGED << caller, query, bootstrap, SuppressRecursion, get_relation_info_hook,
                    index_candidates, table_clauses, candidates, saveCandidates, new_plan,
                    actual_plan, subxactOpen, subxactLeaked, virtualIndexes, emitIdx,
                    emissionEntered, hostPlan, hostError, warnings, inserts, printed, nested,
                    idxadv_read_only, idxadv_composit_max_cols, advTable, uninit >>

(* RollbackAndReleaseCurrentSubTransaction: the catalog entries made in    *)
(* the sub-transaction disappear *)
rolled_back(indexes, list) == SubSeq(indexes, 1, Len(indexes) - Len(list))

(* RollbackAndReleaseCurrentSubTransaction and SPI_finish *)
ReleaseSkipped ==
    /\ pc = "release"
    /\ pc' = IF saveCandidates THEN "store_idx_advice" ELSE "free"
    /\ UNCHANGED << caller, query, bootstrap, SuppressRecursion, get_relation_info_hook,
                    index_candidates, table_clauses, candidates, saveCandidates, new_plan,
                    actual_plan, subxactOpen, subxactLeaked, virtualIndexes, emitIdx, errorRaised,
                    passError, emissionEntered, hostPlan, hostError, warnings, inserts, printed,
                    nested, idxadv_read_only, idxadv_composit_max_cols, advTable, uninit >>

Release ==
    /\ pc = "release"
    /\ subxactOpen' = FALSE
    /\ virtualIndexes' = rolled_back(virtualIndexes, candidates)
    /\ pc' = IF saveCandidates THEN "store_idx_advice" ELSE "free"
    /\ UNCHANGED << caller, query, bootstrap, SuppressRecursion, get_relation_info_hook,
                    index_candidates, table_clauses, candidates, saveCandidates, new_plan,
                    actual_plan, subxactLeaked, emitIdx, errorRaised, passError, emissionEntered,
                    hostPlan, hostError, warnings, inserts, printed, nested, idxadv_read_only,
                    idxadv_composit_max_cols, advTable, uninit >>


(* store_idx_advice up to the foreach: the advisory table is looked up; an *)
(* ERROR goes through the PG_CATCH of index_adviser, which decrements the  *)
(* guard, adds DETAIL and HINT and re-throws                               *)
store_idx_advice ==
    /\ pc = "store_idx_advice"
    /\ emissionEntered' = TRUE
    /\ advTable' \in AdvStates
    /\ IF advTable' = "ok"
       THEN /\ emitIdx' = 1
            /\ pc' = "emit_loop"
            /\ UNCHANGED << SuppressRecursion, errorRaised, passError >>
       ELSE /\ SuppressRecursion' = guard_release(SuppressRecursion)
            /\ errorRaised' = "emission"
            /\ passError' = "emission"
            /\ pc' = "catch"
            /\ UNCHANGED emitIdx
    /\ UNCHANGED << caller, query, bootstrap, get_relation_info_hook, index_candidates,
                    table_clauses, candidates, saveCandidates, new_plan, actual_plan, subxactOpen,
                    subxactLeaked, virtualIndexes, hostPlan, hostError, warnings, inserts, printed,
                    nested, idxadv_read_only, idxadv_composit_max_cols, uninit >>

(* one iteration of the foreach of store_idx_advice, up to SPI_connect *)
StoreCandidate ==
    /\ pc = "emit_loop"
    /\ IF emitIdx > Len(candidates)
       THEN /\ pc' = "free"
            /\ UNCHANGED << emitIdx, printed, warnings >>
       ELSE IF ~candidates[emitIdx].idxused
       THEN /\ emitIdx' = emitIdx + 1
            /\ UNCHANGED << pc, printed, warnings >>
       ELSE /\ printed' = IF caller = "explain" THEN printed + 1 ELSE printed
            /\ \E connected \in BOOLEAN :
                IF connected
                THEN /\ pc' = "SPI_execute"
                     /\ UNCHANGED << emitIdx, warnings >>
                ELSE /\ warnings' = warnings + 1
                     /\ emitIdx' = emitIdx + 1
                     /\ UNCHANGED pc
    /\ UNCHANGED << caller, query, bootstrap, SuppressRecursion, get_relation_info_hook,
                    index_candidates, table_clauses, candidates, saveCandidates, new_plan,
                    actual_plan, subxactOpen, subxactLeaked, virtualIndexes, errorRaised, passError,
                    emissionEntered, hostPlan, hostError, inserts, nested, idxadv_read_only,
                    idxadv_composit_max_cols, advTable, uninit >>

(* SPI_execute of the INSERT: the statement is planned, which re-enters    *)
(* planner_callback and index_adviser, and then executed; SPI_finish       *)
ExecuteInsert ==
    /\ pc = "SPI_execute"
    /\ LET t == guard_test(SuppressRecursion, FALSE)
           r == scan_query(QInsertAdvice, << >>, NIL, FALSE)
       IN  /\ get_relation_info_hook' = FALSE
           /\ nested' = [ ran |-> TRUE, suppressed |-> t.skip,
                          guardAtEntry |-> SuppressRecursion ]
           /\ IF t.skip
              THEN UNCHANGED << index_candidates, table_clauses >>
              ELSE /\ index_candidates' = NIL
                   /\ table_clauses' = r.table_clauses
           /\ \E outcome \in { "inserted", "failed", "error" } :
                LET g == guard_release(t.SuppressRecursion)
                IN  CASE outcome = "inserted" ->
                           /\ inserts' = inserts + 1
                           /\ emitIdx' = emitIdx + 1
                           /\ SuppressRecursion' = g
                           /\ pc' = "emit_loop"
                           /\ UNCHANGED << warnings, errorRaised, passError >>
                      [] outcome = "failed" ->
                           /\ warnings' = warnings + 1
                           /\ emitIdx' = emitIdx + 1
                           /\ SuppressRecursion' = g
                           /\ pc' = "emit_loop"
                           /\ UNCHANGED << inserts, errorRaised, passError >>
                      [] outcome = "error" ->
                           /\ SuppressRecursion' = guard_release(g)
                           /\ errorRaised' = "emission"
                           /\ passError' = "emission"
                           /\ pc' = "catch"
                           /\ UNCHANGED << inserts, warnings, emitIdx >>
    /\ UNCHANGED << caller, query, bootstrap, candidates, saveCandidates, new_plan, actual_plan,
                    subxactOpen, subxactLeaked, virtualIndexes, emissionEntered, hostPlan,
                    hostError, printed, idxadv_read_only, idxadv_composit_max_cols, advTable, uninit >>

(* "free the candidate-list" *)
FreeCandidates ==
    /\ pc = "free"
    /\ IF ~saveCandidates \/ caller # "explain"
       THEN /\ index_candidates' = NIL
            /\ table_clauses' = NIL
       ELSE UNCHANGED << index_candidates, table_clauses >>
    /\ pc' = "DoneCleanly"
    /\ UNCHANGED << caller, query, bootstrap, SuppressRecursion, get_relation_info_hook, candidates,
                    saveCandidates, new_plan, actual_plan, subxactOpen, subxactLeaked,
                    virtualIndexes, emitIdx, errorRaised, passError, emissionEntered, hostPlan,
                    hostError, warnings, inserts, printed, nested, idxadv_read_only,
                    idxadv_composit_max_cols, advTable, uninit >>

(* DoneCleanly: the guard is decremented and the plan returned *)
DoneCleanly ==
    /\ pc = "DoneCleanly"
    /\ SuppressRecursion' = guard_release(SuppressRecursion)
    /\ new_plan' = IF caller = "explain" /\ saveCandidates THEN new_plan ELSE NoPlan
    /\ pc' = "callback_return"
    /\ UNCHANGED << caller, query, bootstrap, get_relation_info_hook, index_candidates,
                    table_clauses, candidates, saveCandidates, actual_plan, subxactOpen,
                    subxactLeaked, virtualIndexes, emitIdx, errorRaised, passError, emissionEntered,
                    hostPlan, hostError, warnings, inserts, printed, nested, idxadv_read_only,
                    idxadv_composit_max_cols, advTable, uninit >>

(* PG_CATCH of planner_callback and ExplainOneQuery_callback: a WARNING,   *)
(* SuppressRecursion = 0, no re-throw.  Nothing that index_adviser had     *)
(* still to do after the point of the ERROR is done.                       *)
Catch ==
    /\ pc = "catch"
    /\ warnings' = warnings + 1
    /\ SuppressRecursion' = 0
    /\ hostError' = caught_error(errorRaised)
    /\ errorRaised' = "none"
    /\ subxactLeaked' = IF subxactOpen THEN subxactLeaked + 1 ELSE subxactLeaked
    /\ subxactOpen' = FALSE
    /\ new_plan' = NoPlan
    /\ pc' = "callback_return"
    /\ UNCHANGED << caller, query, bootstrap, get_relation_info_hook, index_candidates,
                    table_clauses, candidates, saveCandidates, actual_plan, virtualIndexes, emitIdx,
                    passError, emissionEntered, hostPlan, inserts, printed, nested,
                    idxadv_read_only, idxadv_composit_max_cols, advTable, uninit >>

(* the end of the callback: planner_callback returns actual_plan,          *)
(* ExplainOneQuery_callback frees the global lists                         *)
Return ==
    /\ pc = "callback_return"
    /\ IF caller = "planner"
       THEN /\ hostPlan' = actual_plan
            /\ UNCHANGED << index_candidates, table_clauses >>
       ELSE /\ index_candidates' = NIL
            /\ table_clauses' = NIL
            /\ UNCHANGED hostPlan
    /\ pc' = "Done"
    /\ UNCHANGED << caller, query, bootstrap, SuppressRecursion, get_relation_info_hook, candidates,
                    saveCandidates, new_plan, actual_plan, subxactOpen, subxactLeaked,
                    virtualIndexes, emitIdx, errorRaised, passError, emissionEntered, hostError,
                    warnings, inserts, printed, nested, idxadv_read_only, idxadv_composit_max_cols,
                    advTable, uninit >>

(* the host goes on to its next statement: the locals of the finished      *)
(* invocation are gone                                                     *)
Finish ==
    /\ pc = "Done"
    /\ pc' = "Idle"
    /\ caller' = "none"
    /\ query' = QConst
    /\ bootstrap' = FALSE
    /\ candidates' = NIL
    /\ saveCandidates' = FALSE
    /\ new_plan' = NoPlan
    /\ actual_plan' = NoPlan
    /\ emitIdx' = 0
    /\ passError' = "none"
    /\ emissionEntered' = FALSE
    /\ hostPlan' = NoPlan
    /\ hostError' = "none"
    /\ warnings' = 0
    /\ inserts' = 0
    /\ printed' = 0
    /\ nested' = NoNested
    /\ uninit' = FALSE
    /\ advTable' = Unread
    /\ UNCHANGED << SuppressRecursion, get_relation_info_hook, index_candidates, table_clauses,
                    subxactOpen, subxactLeaked, virtualIndexes, errorRaised, idxadv_read_only,
                    idxadv_composit_max_cols >>

Next ==
    \/ planner_callback
    \/ ExplainOneQuery_callback
    \/ index_adviser
    \/ Palloc
    \/ Scan
    \/ Filter
    \/ Connect
    \/ Install
    \/ InstallError
    \/ Replan
    \/ ReplanError
    \/ Attribute
    \/ AttributeError
    \/ Release
    \/ store_idx_advice
    \/ StoreCandidate
    \/ ExecuteInsert
    \/ FreeCandidates
    \/ DoneCleanly
    \/ Catch
    \/ Return
    \/ Finish

Spec == Init /\ [][Next]_vars


(***************************************************************************)
(* The scan on its own: every statement of ScanQueries, under every        *)
(* setting of index_adviser.composit_max_cols, from the point where        *)
(* index_adviser has reset its globals.                                    *)
(***************************************************************************)
ScanInit ==
    /\ pc = "scan"
    /\ caller \in { "planner", "explain" }
    /\ query \in ScanQueries
    /\ bootstrap = FALSE
    /\ SuppressRecursion = 1
    /\ get_relation_info_hook = FALSE
    /\ index_candidates = NIL
    /\ table_clauses = NIL
    /\ candidates = NIL
    /\ saveCandidates = FALSE
    /\ new_plan = NoPlan
    /\ actual_plan = standard_planner(FALSE, MaxCost, { })
    /\ subxactOpen = FALSE
    /\ subxactLeaked = 0
    /\ virtualIndexes = << >>
    /\ emitIdx = 0
    /\ errorRaised = "none"
    /\ passError = "none"
    /\ emissionEntered = FALSE
    /\ hostPlan = IF caller = "explain" THEN actual_plan ELSE NoPlan
    /\ hostError = "none"
    /\ warnings = 0
    /\ inserts = 0
    /\ printed = 0
    /\ nested = NoNested
    /\ idxadv_read_only = FALSE
    /\ idxadv_composit_max_cols \in 1..MaxCompositCols
    /\ advTable = Unread
    /\ uninit = FALSE

ScanNext ==
    \/ Palloc
    \/ Scan
    \/ Filter

ScanSpec == ScanInit /\ [][ScanNext]_vars

(***************************************************************************)
(* The list functions on their own: merge_candidates,                      *)
(* build_composite_candidates, expand_inherited_candidates,                *)
(* remove_irrelevant_candidates and create_virtual_indexes applied to      *)
(* pools of at most MaxPool candidates.  list1 is held in candidates,      *)
(* list2 in index_candidates.                                              *)
(***************************************************************************)
MaxPool == 2

(* a candidate of relid as the scan makes it: columns attnos, the alias of the relation *)
PoolCandidate(relid, attnos, inh) ==
    IndexCandidate(1, relid, AliasOf(relid), attnos, NIL, inh, 0)

(* the candidate the scan makes of funcid(column attno) on relid *)
FuncCandidate(relid, funcid, attno) ==
    IndexCandidate(0, relid, AliasOf(relid), << 0 >>,
                   << FuncExpr(funcid, << Var(1, attno, 0) >>) >>, TRUE, 0)

PoolCandidates ==
    { PoolCandidate(1, << 1 >>, TRUE), PoolCandidate(1, << 2 >>, TRUE),
      PoolCandidate(3, << 1 >>, TRUE), PoolCandidate(3, << 4 >>, TRUE),
      PoolCandidate(7, << 1 >>, FALSE),
      PoolCandidate(8, << 1 >>, FALSE),
      IndexCandidate(2, 1, << 117 >>, << 1 >>, NIL, FALSE, 0),
      FuncCandidate(1, "lower", 1), FuncCandidate(1, "upper", 1) }

AnyPools == UNION { [1..n -> PoolCandidates] : n \in 0..MaxPool }

SortedPools ==
    { p \in AnyPools : \A k \in 1..(Len(p) - 1) : compare_candidates(p[k], p[k + 1]) <= 0 }

(* pools of one candidate of relation 1 whose column counts reach INDEX_MAX_KEYS *)
(* when two of them are put together: w[1] is the first column, w[2] the count   *)
WidePools ==
    { << PoolCandidate(1, [ k \in 1..w[2] |-> w[1] + k - 1 ], FALSE) >> :
        w \in { << 1, INDEX_MAX_KEYS \div 2 >>,
                << 1 + (INDEX_MAX_KEYS \div 2), INDEX_MAX_KEYS \div 2 >>,
                << 1 + (INDEX_MAX_KEYS \div 2), (INDEX_MAX_KEYS \div 2) - 1 >> } }

PoolInit ==
    /\ pc \in { "merge_candidates", "build_composite_candidates",
                "expand_inherited_candidates", "filter", "create_virtual_indexes" }
    /\ candidates \in
          CASE pc \in { "filter", "create_virtual_indexes" } -> AnyPools
            [] pc = "build_composite_candidates" -> SortedPools \cup WidePools
            [] OTHER -> SortedPools
    /\ index_candidates \in
          CASE pc = "merge_candidates" -> SortedPools
            [] pc = "build_composite_candidates" -> SortedPools \cup WidePools
            [] pc = "filter" -> { candidates }   \* the filter does not read it: the pool as it was
            [] OTHER -> { NIL }
    /\ idxadv_composit_max_cols \in
          IF pc = "build_composite_candidates"
          THEN (1..MaxCompositCols) \cup { INDEX_MAX_KEYS }
          ELSE { DefaultCompositMaxCols }
    /\ uninit \in
          IF pc \in { "build_composite_candidates", "expand_inherited_candidates" }
          THEN BOOLEAN ELSE { FALSE }
    /\ caller = "planner"
    /\ query = QConst
    /\ bootstrap = FALSE
    /\ SuppressRecursion = 1
    /\ get_relation_info_hook = FALSE
    /\ table_clauses = NIL
    /\ saveCandidates = FALSE
    /\ new_plan = NoPlan
    /\ actual_plan = standard_planner(FALSE, MaxCost, { })
    /\ subxactOpen = FALSE
    /\ subxactLeaked = 0
    /\ virtualIndexes = << >>
    /\ emitIdx = 0
    /\ errorRaised = "none"
    /\ passError = "none"
    /\ emissionEntered = FALSE
    /\ hostPlan = NoPlan
    /\ hostError = "none"
    /\ warnings = 0
    /\ inserts = 0
    /\ printed = 0
    /\ nested = NoNested
    /\ idxadv_read_only = FALSE
    /\ advTable = Unread

(* candidates = merge_candidates( candidates, newCandidates ) *)
ApplyMerge ==
    /\ pc = "merge_candidates"
    /\ candidates' = merge_candidates(candidates, index_candidates)
    /\ pc' = "merged"
    /\ UNCHANGED << caller, query, bootstrap, SuppressRecursion, get_relation_info_hook,
                    index_candidates, table_clauses, saveCandidates, new_plan, actual_plan,
                    subxactOpen, subxactLeaked, virtualIndexes, emitIdx, errorRaised, passError,
                    emissionEntered, hostPlan, hostError, warnings, inserts, printed, nested,
                    idxadv_read_only, idxadv_composit_max_cols, advTable, uninit >>

(* the merged list merged with itself *)
ApplyMergeAgain ==
    /\ pc = "merged"
    /\ candidates' = merge_candidates(candidates, candidates)
    /\ pc' = "merged_again"
    /\ UNCHANGED << caller, query, bootstrap, SuppressRecursion, get_relation_info_hook,
                    index_candidates, table_clauses, saveCandidates, new_plan, actual_plan,
                    subxactOpen, subxactLeaked, virtualIndexes, emitIdx, errorRaised, passError,
                    emissionEntered, hostPlan, hostError, warnings, inserts, printed, nested,
                    idxadv_read_only, idxadv_composit_max_cols, advTable, uninit >>

(* cicList = build_composite_candidates( list1, list2 ) *)
ApplyCompose ==
    /\ pc = "build_composite_candidates"
    /\ candidates' = build_composite_candidates(candidates, index_candidates)
    /\ pc' = "composed"
    /\ UNCHANGED << caller, query, bootstrap, SuppressRecursion, get_relation_info_hook,
                    index_candidates, table_clauses, saveCandidates, new_plan, actual_plan,
                    subxactOpen, subxactLeaked, virtualIndexes, emitIdx, errorRaised, passError,
                    emissionEntered, hostPlan, hostError, warnings, inserts, printed, nested,
                    idxadv_read_only, idxadv_composit_max_cols, advTable, uninit >>

(* candidates = expand_inherited_candidates( candidates ) *)
ApplyExpand ==
    /\ pc = "expand_inherited_candidates"
    /\ candidates' = expand_inherited_candidates(candidates)
    /\ pc' = "expanded"
    /\ UNCHANGED << caller, query, bootstrap, SuppressRecursion, get_relation_info_hook,
                    index_candidates, table_clauses, saveCandidates, new_plan, actual_plan,
                    subxactOpen, subxactLeaked, virtualIndexes, emitIdx, errorRaised, passError,
                    emissionEntered, hostPlan, hostError, warnings, inserts, printed, nested,
                    idxadv_read_only, idxadv_composit_max_cols, advTable, uninit >>

PoolNext ==
    \/ ApplyMerge
    \/ ApplyMergeAgain
    \/ ApplyCompose
    \/ ApplyExpand
    \/ Filter
    \/ Install

PoolSpec == PoolInit /\ [][PoolNext]_vars


(***************************************************************************)
(* Properties of the advisory pass (specification Spec).                   *)
(***************************************************************************)

(* C1: when planner_callback has finished, what it handed to the host is   *)
(* the plan the standard planner made without hypothetical indexes, and no *)
(* ERROR of the advisory pass has reached the host: the only ERROR the     *)
(* host can see is the one of the standard planner itself.                 *)
C1_ReturnsStandardPlan ==
    (pc = "Done" /\ caller = "planner") =>
        /\ hostError \in { "none", "standard_planner" }
        /\ hostError = "none" =>
              /\ hostPlan = actual_plan
              /\ hostPlan.tag = "PlannedStmt"
              /\ ~hostPlan.hypothetical

C1_Witness ==
    /\ pc = "Done"
    /\ caller = "planner"
    /\ passError \in AdvisoryStages
    /\ hostError = "none"
    /\ hostPlan = actual_plan
    /\ hostPlan.tag = "PlannedStmt"

(* C2: whenever a callback has finished after a pass that got as far as    *)
(* installing its hypothetical indexes, whatever the exit path (an ERROR   *)
(* of the re-plan or of the attribution included), the hook is cleared,    *)
(* the internal sub-transaction has been rolled back and no hypothetical   *)
(* index is left in the catalog.                                           *)
C2_ReleaseOnEveryExit ==
    (pc = "Done" /\ passError \notin { "scan", "install" }) =>
        /\ ~get_relation_info_hook
        /\ ~subxactOpen
        /\ subxactLeaked = 0
        /\ virtualIndexes = << >>

(* C3: store_idx_advice is entered only with the sub-transaction rolled    *)
(* back and the hook cleared, and never in a pass in which an ERROR was    *)
(* raised before.                                                          *)
C3_EmissionAfterRelease ==
    /\ pc = "store_idx_advice" =>
          /\ ~subxactOpen
          /\ ~get_relation_info_hook
          /\ passError = "none"
          /\ errorRaised = "none"
    /\ emissionEntered =>
          /\ ~subxactOpen
          /\ passError \in { "none", "emission" }

C3_Witness ==
    /\ pc = "store_idx_advice"
    /\ saveCandidates
    /\ ~subxactOpen
    /\ ~get_relation_info_hook
    /\ \E k \in 1..Len(candidates) : candidates[k].idxused

(* C4: when store_idx_advice fails because the advisory table is missing   *)
(* or is neither a table nor a view, the statement of the user fails with  *)
(* that ERROR, from either callback.                                       *)
C4_EmissionErrorReachesUser ==
    (pc = "Done" /\ passError = "emission" /\ advTable \in { "missing", "not_table" }) =>
        hostError = "emission"

(* C5: an invocation of index_adviser that finds SuppressRecursion         *)
(* non-zero does nothing: it goes to DoneCleanly, leaves index_candidates  *)
(* and table_clauses alone, and the decrement at DoneCleanly gives the     *)
(* guard the value it had.                                                 *)
C5_SuppressedIsNoOp ==
    [][(pc = "index_adviser" /\ SuppressRecursion # 0) =>
          /\ pc' = "DoneCleanly"
          /\ UNCHANGED << index_candidates, table_clauses >>
          /\ guard_release(SuppressRecursion') = SuppressRecursion]_vars

(* C6: the guard is never negative, and it is zero whenever no pass is in  *)
(* progress.                                                               *)
C6_GuardZeroWhenIdle ==
    /\ SuppressRecursion >= 0
    /\ pc \in { "Idle", "Done" } => SuppressRecursion = 0

(* C7: with index_adviser.read_only set, no INSERT into the advisory table *)
(* is executed.                                                            *)
C7_ReadOnlyNeverInserts ==
    idxadv_read_only => inserts = 0

(***************************************************************************)
(* Properties of the scan (specification ScanSpec).                        *)
(***************************************************************************)
(* the columns of the candidates of list, in list order *)
ColumnsOf(list) == [ k \in 1..Len(list) |-> list[k].varattno ]

AndQueries == { QAnd(r, a, b) : r \in { 1, 2 }, a \in 1..2, b \in (1..2) }
OrQueries == { QOr(r, a, b) : r \in { 1, 2 }, a \in 1..2, b \in (1..2) }
SingleQueries ==
    { QSingle(r, a, vl) : r \in { 1, 2, 6 }, a \in 1..2, vl \in BOOLEAN }
    \cup { QCte(r, a) : r \in { 1, 2 }, a \in 1..2 }

(* the two columns compared by the first and the second equality *)
FirstColumn(q) == IF q.quals.args[1].args[1].tag = "Var" THEN q.quals.args[1].args[1].varattno
                                                         ELSE q.quals.args[1].args[2].varattno
SecondColumn(q) == q.quals.args[2].args[1].varattno

(* the column and the relation of a query of SingleQueries *)
WhereOf(q) == IF q.cteList = << >> THEN q ELSE q.cteList[1]
SingleColumnOf(q) == IF WhereOf(q).quals.args[1].tag = "Var"
                     THEN WhereOf(q).quals.args[1].varattno
                     ELSE WhereOf(q).quals.args[2].varattno
SingleRelationOf(q) == WhereOf(q).rtable[1].relid

(* C8: the scan of "a = .. AND b = .." on two different columns of one     *)
(* relation, with composit_max_cols at least 2, yields exactly the four    *)
(* candidates (a), (b), (a, b), (b, a).                                    *)
C8_AndYieldsFour ==
    [][(/\ pc = "scan"
        /\ pc' # "scan"
        /\ query \in AndQueries
        /\ FirstColumn(query) # SecondColumn(query)
        /\ idxadv_composit_max_cols >= 2) =>
          /\ Len(candidates') = 4
          /\ { candidates'[k].varattno : k \in 1..4 } =
                { << FirstColumn(query) >>, << SecondColumn(query) >>,
                  << FirstColumn(query), SecondColumn(query) >>,
                  << SecondColumn(query), FirstColumn(query) >> }]_vars

(* C9: the scan of a single supported equality on a plain column of an     *)
(* ordinary durable relation without children yields exactly one           *)
(* candidate, of one column, with the relation and the attribute number of *)
(* that column; the same holds when the equality stands inside a CTE.      *)
C9_SingleEquality ==
    [][(pc = "scan" /\ pc' # "scan" /\ query \in SingleQueries) =>
          /\ pc' = "filter"
          /\ Len(candidates') = 1
          /\ candidates'[1].ncols = 1
          /\ candidates'[1].reloid = SingleRelationOf(query)
          /\ candidates'[1].varattno = << SingleColumnOf(query) >>]_vars

C9_Witness ==
    /\ pc = "filter"
    /\ query = QCte(1, 2)
    /\ Len(candidates) = 1
    /\ candidates[1].reloid = 1
    /\ candidates[1].varattno = << 2 >>

(* C10: the scan of "a = .. OR b = .." on two different columns yields     *)
(* exactly the two single-column candidates; no candidate that comes out   *)
(* of an OR or a NOT has more than one column.                             *)
C10_OrYieldsSingles ==
    [][(pc = "scan" /\ pc' # "scan" /\ query \in OrQueries \cup { QNot(1, 1) }) =>
          /\ \A k \in 1..Len(candidates') : candidates'[k].ncols = 1
          /\ (query \in OrQueries /\ FirstColumn(query) # SecondColumn(query)) =>
                /\ Len(candidates') = 2
                /\ { candidates'[k].varattno : k \in 1..2 } =
                      { << FirstColumn(query) >>, << SecondColumn(query) >> }
                /\ \A k \in 1..2 : candidates'[k].reloid = query.rtable[1].relid]_vars

C10_Witness ==
    /\ pc = "filter"
    /\ query = QOr(1, 1, 2)
    /\ idxadv_composit_max_cols >= 2
    /\ ColumnsOf(candidates) = << << 1 >>, << 2 >> >>


(***************************************************************************)
(* Properties of the partial-clause columns.                               *)
(***************************************************************************)
(* the fragment kept for "is_deleted = <const>" on the first entry of the range table *)
DeletedFragment == OpExpr("=", Var(1, 3, 0), Const)

(* the predicate of the entries of clauses keyed by (reloid, alias) *)
EntryPredicates(clauses, reloid, alias) ==
    { clauses[k].predicate : k \in { j \in 1..Len(clauses) :
                                       /\ clauses[j].reloid = reloid
                                       /\ clauses[j].erefAlias = alias } }

(* the predicate the index made for candidate cand must carry *)
PredicateFor(clauses, cand) ==
    IF EntryPredicates(clauses, cand.reloid, cand.erefAlias) = {} THEN { NIL }
    ELSE EntryPredicates(clauses, cand.reloid, cand.erefAlias)

(* C11: a supported comparison on a partial-clause column (is_deleted)     *)
(* gives no candidate and is not descended into; it adds exactly one       *)
(* fragment to the entry of table_clauses keyed by the relation and the    *)
(* alias, making the entry when there is none; and every virtual index     *)
(* made for a candidate of that relation and alias carries the predicate   *)
(* of that entry.                                                          *)
C11_PartialClause ==
    [][/\ (pc = "scan" /\ pc' # "scan" /\ query = QAnd(1, 3, 1)) =>
             /\ ColumnsOf(candidates') = << << 1 >> >>
             /\ table_clauses' = << [ reloid |-> 1, erefAlias |-> AliasOf(1),
                                      predicate |-> << DeletedFragment >> ] >>
       /\ (pc = "scan" /\ pc' # "scan" /\ query = QAnd(1, 3, 3)) =>
             /\ \A k \in 1..Len(candidates') : candidates'[k].ncols = 1
             /\ table_clauses' = << [ reloid |-> 1, erefAlias |-> AliasOf(1),
                                      predicate |-> << DeletedFragment, DeletedFragment >> ] >>
       /\ (pc = "create_virtual_indexes" /\ pc' = "replan") =>
             \A k \in 1..Len(candidates) :
                 { create_virtual_indexes(candidates, Len(virtualIndexes) + 1,
                                          table_clauses).indexes[k].ii_Predicate }
                    = PredicateFor(table_clauses, candidates[k])]_vars

C11_Witness ==
    /\ pc = "replan"
    /\ query = QAnd(1, 3, 1)
    /\ Len(virtualIndexes) = 1
    /\ ColumnsOf(candidates) = << << 1 >> >>
    /\ PredicateFor(table_clauses, candidates[1]) = { << DeletedFragment >> }


(***************************************************************************)
(* Properties of the list functions (specification PoolSpec).              *)
(***************************************************************************)
(* list holds a candidate of relation childOID made from cand *)
HasCloneOf(list, cand, childOID) ==
    \E j \in 1..Len(list) :
        /\ list[j].reloid = childOID
        /\ list[j].ncols = cand.ncols
        /\ list[j].varattno = cand.varattno
        /\ list[j].parentOid = cand.reloid

(* what expand_inherited_candidates owes to the inheritable candidate cand *)
ExpandedFrom(list, cand, inhOIDs) ==
    IF inhOIDs = << >>
    THEN \E j \in 1..Len(list) : list[j] = [ cand EXCEPT !.inh = FALSE ]
    ELSE /\ \E j \in 1..Len(list) : list[j] = cand
         /\ \A l \in 1..Len(inhOIDs) : HasCloneOf(list, cand, inhOIDs[l])

(* C12: expand_inherited_candidates keeps an inheritable candidate of a    *)
(* relation with children and adds, for every child, a candidate of the    *)
(* child with the same columns that records the relation as its parent; a  *)
(* pool of one inheritable candidate of a relation without children comes  *)
(* back as that candidate alone, its inh flag cleared.                     *)
C12_ExpandInherited ==
    [][(pc = "expand_inherited_candidates" /\ pc' = "expanded") =>
          /\ \A k \in 1..Len(candidates) :
                candidates[k].inh =>
                    ExpandedFrom(candidates', candidates[k],
                                 find_inheritance_children(candidates[k].reloid))
          /\ (/\ Len(candidates) = 1
              /\ candidates[1].inh
              /\ find_inheritance_children(candidates[1].reloid) = << >>) =>
                candidates' = << [ candidates[1] EXCEPT !.inh = FALSE ] >>
          /\ (/\ Len(candidates) = 1
              /\ candidates[1].inh
              /\ find_inheritance_children(candidates[1].reloid) # << >>) =>
                Len(candidates') = 1 + Len(find_inheritance_children(candidates[1].reloid))]_vars

C12_Witness ==
    /\ pc = "expanded"
    /\ Len(candidates) = 3
    /\ candidates[1] = PoolCandidate(3, << 4 >>, TRUE)
    /\ candidates[2].reloid = 4 /\ candidates[2].parentOid = 3
    /\ candidates[3].reloid = 5 /\ candidates[3].parentOid = 3


(***************************************************************************)
(* Properties of the attribution and the scoring (specification Spec).     *)
(***************************************************************************)
(* the pages of the used candidates among the first cell candidates *)
RECURSIVE UsedPages(_, _)
UsedPages(list, cell) ==
    IF cell = 0 THEN 0
    ELSE UsedPages(list, cell - 1) + (IF list[cell].idxused THEN list[cell].pages ELSE 0)

(* the sum, as a fraction, of the benefits of the used candidates among    *)
(* the first cell candidates                                               *)
RECURSIVE UsedBenefit(_, _)
UsedBenefit(list, cell) ==
    IF cell = 0 THEN NoBenefit
    ELSE IF ~list[cell].idxused THEN UsedBenefit(list, cell - 1)
    ELSE [ num |-> UsedBenefit(list, cell - 1).num * list[cell].benefit.den
                   + list[cell].benefit.num * UsedBenefit(list, cell - 1).den,
           den |-> UsedBenefit(list, cell - 1).den * list[cell].benefit.den ]

SomeUsed(list) == \E k \in 1..Len(list) : list[k].idxused

(* C13: when the re-plan is cheaper than the plan without hypothetical     *)
(* indexes and at least one candidate is used, the benefits of the used    *)
(* candidates add up to the cost saved, and the benefit of each is the     *)
(* cost saved times its pages over the pages of all used candidates.       *)
C13_BenefitsSumToSaving ==
    [][(/\ pc = "attribute" /\ pc' = "release"
        /\ actual_plan.total_cost - new_plan.total_cost > 0
        /\ SomeUsed(candidates')) =>
          /\ UsedBenefit(candidates', Len(candidates')).den # 0
          /\ UsedBenefit(candidates', Len(candidates')).num
                = (actual_plan.total_cost - new_plan.total_cost)
                  * UsedBenefit(candidates', Len(candidates')).den
          /\ \A k \in 1..Len(candidates') :
                candidates'[k].idxused =>
                    candidates'[k].benefit.num * UsedPages(candidates', Len(candidates'))
                        = (actual_plan.total_cost - new_plan.total_cost)
                          * candidates'[k].pages * candidates'[k].benefit.den]_vars

(* C14: after the attribution a candidate that is not marked used has      *)
(* benefit zero; a candidate is marked used only if a scan node of the     *)
(* re-plan names its index; store_idx_advice prints and inserts a          *)
(* recommendation only for a candidate that is marked used.                *)
C14_UnusedScoreZeroAndSilent ==
    [][/\ (pc = "attribute" /\ pc' = "release") =>
            \A k \in 1..Len(candidates') :
                /\ ~candidates'[k].idxused =>
                      (candidates'[k].benefit.num = 0 /\ candidates'[k].benefit.den # 0)
                /\ candidates'[k].idxused => candidates[k].idxoid \in new_plan.indexids
       /\ (pc = "emit_loop" /\ (pc' = "SPI_execute" \/ printed' # printed)) =>
            candidates[emitIdx].idxused]_vars


(***************************************************************************)
(* Properties of the re-plan (specification Spec).                         *)
(***************************************************************************)
(* the Oids of rel->indexlist as the callback builds it *)
OidsSeen(rel, catalog) ==
    { get_relation_info_callback(rel, catalog)[k].indexoid :
      k \in 1..Len(get_relation_info_callback(rel, catalog)) }

RealIndexes(rel) ==
    { Catalog(rel).indexes[k].indexoid : k \in 1..Len(Catalog(rel).indexes) }

(* the hypothetical indexes the current pass made on rel *)
PassIndexes(rel, list) ==
    { list[k].idxoid : k \in { c \in 1..Len(list) : list[c].reloid = rel } }

Supported(relid) == RelationNeedsWAL(relid) /\ ~IsSystemRelation(relid)

(* C15: whatever the pool, its order and its mix of relations, no          *)
(* candidate of a system relation or of a relation that is not durable     *)
(* (temporary, unlogged) is left by remove_irrelevant_candidates.          *)
C15_FilterDropsUnsupported ==
    [][(pc = "filter" /\ pc' # "filter") =>
          \A k \in 1..Len(candidates') : Supported(candidates'[k].reloid)]_vars

C15_Witness ==
    /\ pc = "spi_connect"
    /\ Len(index_candidates) = 2
    /\ ~RelationNeedsWAL(index_candidates[1].reloid)
    /\ Supported(index_candidates[2].reloid)
    /\ candidates = << index_candidates[2] >>

(* C17: merge_candidates is idempotent: the merge of two sorted pools      *)
(* merged with itself is that merge again, and a sorted pool merged with   *)
(* itself is that pool.                                                    *)
C17_MergeIdempotent ==
    [][/\ (pc = "merged" /\ pc' = "merged_again") => candidates' = candidates
       /\ (pc = "merge_candidates" /\ pc' = "merged" /\ index_candidates = candidates) =>
            candidates' = candidates]_vars

C17_Witness ==
    /\ pc = "merged_again"
    /\ Len(index_candidates) = MaxPool
    /\ Len(candidates) > Len(index_candidates)
    /\ \E k \in 1..Len(index_candidates) : \E c \in 1..Len(candidates) :
          candidates[c] = index_candidates[k]

Sorted(list) ==
    \A k \in 1..(Len(list) - 1) : compare_candidates(list[k], list[k + 1]) <= 0

(* C18: the merge of two pools that are sorted under compare_candidates is *)
(* sorted under compare_candidates.                                        *)
C18_MergeSorted ==
    [][(pc = "merge_candidates" /\ pc' = "merged" /\ Sorted(candidates)
        /\ Sorted(index_candidates)) => Sorted(candidates')]_vars

C18_Witness ==
    /\ pc = "merged"
    /\ Len(index_candidates) = MaxPool
    /\ Len(candidates) = 2 * MaxPool
    /\ candidates[1] # index_candidates[1]
    /\ candidates[Len(candidates)] # index_candidates[Len(index_candidates)]

(* C19: every candidate build_composite_candidates returns has at most     *)
(* composit_max_cols columns, fewer than INDEX_MAX_KEYS columns, and no    *)
(* column twice.                                                           *)
C19_CompositeWidth ==
    [][(pc = "build_composite_candidates" /\ pc' = "composed") =>
          \A k \in 1..Len(candidates') :
              /\ candidates'[k].ncols <= idxadv_composit_max_cols
              /\ candidates'[k].ncols < INDEX_MAX_KEYS
              /\ Len(candidates'[k].varattno) = candidates'[k].ncols
              /\ \A i, j \in 1..candidates'[k].ncols :
                    i # j => candidates'[k].varattno[i] # candidates'[k].varattno[j]]_vars

C19_Witness ==
    /\ pc = "composed"
    /\ idxadv_composit_max_cols = INDEX_MAX_KEYS
    /\ \E k \in 1..Len(candidates) : candidates[k].ncols = INDEX_MAX_KEYS - 1

(* C20: a sorted pool handed to expand_inherited_candidates comes back     *)
(* sorted under compare_candidates, inheritance children included.         *)
C20_ExpandKeepsSorted ==
    [][(pc = "expand_inherited_candidates" /\ pc' = "expanded" /\ Sorted(candidates)) =>
          Sorted(candidates')]_vars


(***************************************************************************)
(* Properties of the scan, continued (specification ScanSpec).             *)
(***************************************************************************)
(* C21: the pool scan_query returns holds no two candidates that are equal *)
(* under compare_candidates (relation, alias, column count and the         *)
(* attribute number at every position), also when a sub-query or a common  *)
(* table expression names a relation with inheritance children.            *)
C21_ScanPoolHasNoDuplicates ==
    [][(pc = "scan" /\ pc' = "filter") =>
          \A k, l \in 1..Len(candidates') :
              k # l => compare_candidates(candidates'[k], candidates'[l]) # 0]_vars


(* the cells of list that hold cand *)
CellsOf(list, cand) == { k \in 1..Len(list) : list[k] = cand }

(* cand's own relation has a valid index without expressions and without   *)
(* a predicate on exactly the columns of cand                              *)
OwnIndexMatches(cand) ==
    \E k \in 1..Len(Catalog(cand.reloid).indexes) :
        /\ Catalog(cand.reloid).indexes[k].valid
        /\ ~Catalog(cand.reloid).indexes[k].exprs
        /\ ~Catalog(cand.reloid).indexes[k].pred
        /\ Catalog(cand.reloid).indexes[k].keys = cand.varattno

(* C22: remove_irrelevant_candidates removes a candidate of a supported    *)
(* relation only if an index of that candidate's own relation has the key  *)
(* columns of the candidate; an index of another relation removes nothing. *)
C22_FilterRemovesOwnMatchesOnly ==
    [][(pc = "filter" /\ pc' # "filter") =>
          \A k \in 1..Len(candidates) :
              (Supported(candidates[k].reloid) /\ ~OwnIndexMatches(candidates[k])) =>
                  Cardinality(CellsOf(candidates', candidates[k]))
                      = Cardinality(CellsOf(candidates, candidates[k]))]_vars


(* C23: every composite that build_composite_candidates returns is put     *)
(* together from one candidate of list1 and one of list2 that have the     *)
(* same relation and the same alias, the input lists being sorted.         *)
BuiltFrom(cic, cand1, cand2) ==
    /\ cand1.reloid = cand2.reloid
    /\ cand1.erefAlias = cand2.erefAlias
    /\ cic.reloid = cand1.reloid
    /\ cic.erefAlias = cand1.erefAlias
    /\ cic.varattno \in { cand1.varattno \o cand2.varattno, cand2.varattno \o cand1.varattno }

C23_CompositeOfOneRelationAndAlias ==
    [][(pc = "build_composite_candidates" /\ pc' = "composed") =>
          \A k \in 1..Len(candidates') :
              \E c1 \in 1..Len(candidates), c2 \in 1..Len(index_candidates) :
                  BuiltFrom(candidates'[k], candidates[c1], index_candidates[c2])]_vars


(* C24: merge_candidates drops a candidate only when the other list holds  *)
(* a duplicate of it: same relation, alias, column count and the same      *)
(* column or index expression at every position.  Every candidate of       *)
(* either input list is therefore found, as such, in the result.           *)
Duplicate(ic1, ic2) ==
    /\ ic1.reloid = ic2.reloid
    /\ ic1.erefAlias = ic2.erefAlias
    /\ ic1.ncols = ic2.ncols
    /\ ic1.varattno = ic2.varattno
    /\ ic1.attList = ic2.attList

C24_MergeDropsDuplicatesOnly ==
    [][(pc = "merge_candidates" /\ pc' = "merged") =>
          /\ \A c1 \in 1..Len(candidates) :
                \E k \in 1..Len(candidates') : Duplicate(candidates'[k], candidates[c1])
          /\ \A c2 \in 1..Len(index_candidates) :
                \E k \in 1..Len(candidates') :
                    Duplicate(candidates'[k], index_candidates[c2])]_vars


(* C25: every plain column reference on an eligible relation that the      *)
(* walker reaches within one scanned expression has its single-column      *)
(* candidate in the pool of the scan.  The expression taken here is the    *)
(* joinaliasvars list of a join, which the walker visits cell by cell.     *)
JoinAliasVars(qry) ==
    UNION { { qry.rtable[k].joinaliasvars[v] : v \in 1..Len(qry.rtable[k].joinaliasvars) } :
            k \in 1..Len(qry.rtable) }

HasCandidateOf(list, qry, var) ==
    \E k \in 1..Len(list) :
        /\ list[k].reloid = qry.rtable[var.varno].relid
        /\ list[k].varattno = << var.varattno >>

C25_EveryReachedColumnIsKept ==
    [][(pc = "scan" /\ pc' \in { "filter", "DoneCleanly" }) =>
          \A var \in JoinAliasVars(query) :
              Supported(query.rtable[var.varno].relid) =>
                  HasCandidateOf(candidates', query, var)]_vars


(* C26: below an operator that is not one of the supported ones the scan   *)
(* still visits the operands: whatever candidate an operand yields when    *)
(* it is scanned on its own is in the pool of the scan of the query.       *)
OperandCandidates(qry, arg) ==
    scan_generic_node(qry.quals.args[arg], << qry.rtable >>, NIL, FALSE).candidates

C26_UnsupportedOperatorStillDescends ==
    [][(/\ pc = "scan" /\ pc' \in { "filter", "DoneCleanly" }
        /\ query.quals.tag = "OpExpr"
        /\ query.quals.opno \notin SupportedOps) =>
          \A arg \in 1..Len(query.quals.args) :
              \A k \in 1..Len(OperandCandidates(query, arg)) :
                  \E l \in 1..Len(candidates') :
                      Duplicate(candidates'[l], OperandCandidates(query, arg)[k])]_vars


(* C27: the scan writes nothing into the query tree: the copy that         *)
(* index_adviser hands to scan_query has the same field values, the varno  *)
(* of the column references included, when the scan is over and the pass   *)
(* goes on, with that copy, towards the re-plan.                           *)
C27_ScanLeavesTreeAlone ==
    [][(pc = "scan" /\ pc' = "filter") => query' = query]_vars


(* C28: when the attribute-name lookup fails for the column at the bottom  *)
(* of a function call, the scan goes on with the rest of the query and the *)
(* pass goes on with the candidates found elsewhere: no error leaves the   *)
(* scan.                                                                   *)
IsFuncComparison(node) ==
    /\ node.tag = "OpExpr"
    /\ node.args[1].tag = "FuncExpr"
    /\ func_bottom(node.args[1]).tag = "Var"

FuncLookupFails(qry) ==
    /\ qry.quals.tag = "BoolExpr"
    /\ \E k \in 1..Len(qry.quals.args) :
          /\ IsFuncComparison(qry.quals.args[k])
          /\ get_attname(qry.rtable[func_bottom(qry.quals.args[k].args[1]).varno].relid,
                         func_bottom(qry.quals.args[k].args[1]).varattno) = ""

C28_FailedLookupDoesNotAbort ==
    [][(pc = "scan" /\ pc' # "scan" /\ FuncLookupFails(query)) =>
          /\ pc' = "filter"
          /\ passError' = "none"
          /\ \E k \in 1..Len(candidates') : candidates'[k].attList = NIL]_vars


(* C29: the denominator of the benefit computation is the arithmetic sum   *)
(* of the page counts of the candidates, each at least 1: the sum never    *)
(* wraps around, the denominator is positive and no share exceeds 1.       *)
RECURSIVE PagesSum(_, _)
PagesSum(list, cell) == IF cell = 0 THEN 0 ELSE PagesSum(list, cell - 1) + list[cell].pages

C29_TotalSizeIsExactSum ==
    [][(/\ pc = "attribute" /\ pc' = "release"
        /\ saveCandidates'
        /\ \A k \in 1..Len(candidates) : candidates[k].pages >= 1) =>
          \A k \in 1..Len(candidates') :
              /\ candidates'[k].benefit.den = PagesSum(candidates, Len(candidates))
              /\ candidates'[k].benefit.den > 0
              /\ candidates'[k].pages <= candidates'[k].benefit.den]_vars


(* C30: whatever the order of the pool, the hypothetical index that        *)
(* create_virtual_indexes makes for a candidate has that candidate's own   *)
(* expression list as its expression list: the expressions of a candidate  *)
(* handled earlier in the loop are not attached to it.                     *)
IndexesCreated ==
    create_virtual_indexes(candidates, Len(virtualIndexes) + 1, table_clauses).indexes

C30_IndexHasOwnExpressions ==
    [][(pc = "create_virtual_indexes" /\ pc' = "replan") =>
          \A k \in 1..Len(candidates) :
              IndexesCreated[k].ii_Expressions = candidates[k].attList]_vars

====
